---- MODULE Spec2Model ----
(***************************************************************************)
(* UnixFS file layer of rust-ipfs: the FileAdder (unixfs/src/adder.rs)     *)
(* which chunks a byte stream into leaf blocks and link blocks, and the    *)
(* block-by-block file walk (unixfs/src/file/reader.rs, file/visit.rs)     *)
(* which reads such a tree back, optionally restricted to a byte range.    *)
(*                                                                         *)
(* Conventions.  Option<T> is a sequence of length 0 (None) or 1 (Some).   *)
(* A byte slice is a sequence of bytes.  Range<u64> a..b is <<a, b>>.      *)
(* The encoded form of a block is the PBNode message it is written as; a   *)
(* Cid is the digest of the encoded block, modelled without collisions.    *)
(***************************************************************************)
EXTENDS Integers, Sequences, FiniteSets, TLC

\* ------------------------------------------------------------ bounds
\* Longest byte stream of the exhaustive part of the input space.
MaxLen == 4
\* Longest input slice the caller hands to one push call.
MaxPush == 4
\* Largest chunker size of the exhaustive part (sizes 0..MaxChunk).
MaxChunk == 3
\* Leaves pushed beyond the fan-out threshold by the long stream.
ExtraLeaves == 1
\* Largest end of a target range given to the walk.
MaxRange == 5
\* Most links, and most blocksizes, of a block given to a reader call or walk.
MaxLinks == 2
\* Largest blocksize an interior block declares, and longest leaf, of a walk.
MaxBlocksize == 2

\* ------------------------------------------------------------ constants
\* Links collected by push before a link block is flushed.
FanoutLinks == 174
\* Links required by finish before the root link block is flushed.
FinishLinks == 1
\* Encoded length of a CIDv0: multihash code, digest length, 32 digest bytes.
CidV0Len == 34
\* Prefetches the task of cat runs at the same time.
PrefetchConcurrency == 2

Bytes == {0, 1}

None == <<>>
Some(v) == <<v>>
IsSome(o) == Len(o) = 1
IsNone(o) == Len(o) = 0
Unwrap(o) == o[1]

Min(a, b) == IF a <= b THEN a ELSE b
Max(a, b) == IF a >= b THEN a ELSE b

RECURSIVE SumSeq(_)
SumSeq(s) == IF s = <<>> THEN 0 ELSE Head(s) + SumSeq(Tail(s))

RECURSIVE Flatten(_)
Flatten(ss) == IF ss = <<>> THEN <<>> ELSE Head(ss) \o Flatten(Tail(ss))

Reverse(s) == [i \in 1..Len(s) |-> s[Len(s) + 1 - i]]

\* ------------------------------------------------------------ block codec
UnixFsTypeRaw == "Raw"
UnixFsTypeFile == "File"

\* UnixFs { Type, Data, filesize, blocksizes, hashType, fanout, mode, mtime }
UnixFs(Type, Data, filesize, blocksizes) ==
    [Type |-> Type, Data |-> Data, filesize |-> filesize, blocksizes |-> blocksizes,
     hashType |-> None, fanout |-> None, mode |-> None, mtime |-> None]

PBLink(Hash, Name, Tsize) == [Hash |-> Hash, Name |-> Name, Tsize |-> Tsize]

FlatUnixFs(links, data) == [links |-> links, data |-> data]

\* Length of a protobuf varint.
VarintLen(n) == IF n < 128 THEN 1 ELSE IF n < 16384 THEN 2 ELSE 3

\* Length of an optional varint field with a one byte tag.
OptVarintSize(o) == IF IsSome(o) THEN 1 + VarintLen(Unwrap(o)) ELSE 0

\* UnixTime { Seconds, FractionalNanoseconds }: a varint and an optional fixed32.
UnixTime(Seconds, FractionalNanoseconds) ==
    [Seconds |-> Seconds, FractionalNanoseconds |-> FractionalNanoseconds]

UnixTime_get_size(t) ==
    1 + VarintLen(t.Seconds) + (IF IsSome(t.FractionalNanoseconds) THEN 5 ELSE 0)

UnixFs_get_size(d) ==
    2
    + (IF IsSome(d.Data) THEN 1 + VarintLen(Len(Unwrap(d.Data))) + Len(Unwrap(d.Data)) ELSE 0)
    + OptVarintSize(d.filesize)
    + SumSeq([i \in 1..Len(d.blocksizes) |-> 1 + VarintLen(d.blocksizes[i])])
    + OptVarintSize(d.hashType)
    + OptVarintSize(d.fanout)
    + OptVarintSize(d.mode)
    + (IF IsSome(d.mtime) THEN 2 + UnixTime_get_size(Unwrap(d.mtime)) ELSE 0)

PBLink_get_size(l) ==
    (IF IsSome(l.Hash) THEN 1 + VarintLen(CidV0Len) + CidV0Len ELSE 0)
    + (IF IsSome(l.Name) THEN 1 + VarintLen(Len(Unwrap(l.Name))) + Len(Unwrap(l.Name)) ELSE 0)
    + OptVarintSize(l.Tsize)

\* FlatUnixFs::get_size: the length of the PBNode message.
FlatUnixFs_get_size(flat) ==
    SumSeq([i \in 1..Len(flat.links) |->
                1 + VarintLen(PBLink_get_size(flat.links[i])) + PBLink_get_size(flat.links[i])])
    + 1 + VarintLen(UnixFs_get_size(flat.data)) + UnixFs_get_size(flat.data)

\* FlatUnixFs::write_message: the PBNode { Links, Data } the block is written as.
write_message(flat) ==
    [Links |-> flat.links, Data |-> flat.data, len |-> FlatUnixFs_get_size(flat)]

Ok(v) == [ok |-> TRUE, value |-> v]
Err(e) == [ok |-> FALSE, panic |-> FALSE, error |-> e]
\* The call does not return: a panic (failed expect/unwrap, slice out of bounds).
Panic(e) == [ok |-> FALSE, panic |-> TRUE, error |-> e]

\* FlatUnixFs::try_from(&[u8]): the message of a block written by
\* write_message, or the error of the decoder when the bytes end before the
\* message does.
FlatUnixFs_try_from(block) ==
    IF block.len = FlatUnixFs_get_size(FlatUnixFs(block.Links, block.Data))
        THEN Ok(FlatUnixFs(block.Links, block.Data))
        ELSE Err("Read")

\* vec.len()
BlockLen(block) == block.len

\* Cid::new_v0(multihash::wrap(Sha2_256, Sha256::digest(out)))
Cid_new_v0(out) == [sha2_256 |-> out]

\* Cid::to_bytes: the binary form stored in PBLink.Hash.
Cid_to_bytes(cid) == <<"cidv0", cid>>

\* Cid::try_from(&[u8])
Cid_try_from(hash) == IF hash[1] = "cidv0" THEN Ok(hash[2]) ELSE Err("cid::Error")

render_and_hash(flat) ==
    LET out == write_message(flat)
        cid == Cid_new_v0(out)
    IN <<cid, out>>

\* ------------------------------------------------------------ Chunker
\* Mutant of Chunker_accept: the input is not cut at max.
Chunker_accept_uncut(max, input, buffered) ==
    LET l == Len(input)
        accepted == SubSeq(input, 1, l)
        ready == l + Len(input) >= max
    IN [accepted |-> accepted, ready |-> ready]

Chunker_accept(max, input, buffered) ==
    LET l == Min(Len(input), max)
        accepted == SubSeq(input, 1, l)
        ready == l + Len(input) >= max
    IN [accepted |-> accepted, ready |-> ready]

\* ------------------------------------------------------------ FileAdder
\* FileAdder::with_chunker(Chunker::Size(max)); the other fields are Default.
FileAdder_with_chunker(max) ==
    [chunker |-> max, block_buffer |-> <<>>, unflushed_links |-> <<>>,
     total_blocks |-> 0, filesize |-> 0]

\* Mutant of flush_buffered_leaf: block_buffer is not cleared.
flush_buffered_leaf_keeps_buffer(self) ==
    IF self.block_buffer # <<>> THEN
        LET bytes == Len(self.block_buffer)
            inner == [links |-> <<>>,
                      data |-> [Type |-> "File", Data |-> <<self.block_buffer>>,
                                filesize |-> <<Len(self.block_buffer)>>, blocksizes |-> <<>>,
                                hashType |-> <<>>, fanout |-> <<>>, mode |-> <<>>,
                                mtime |-> <<>>]]
            rendered == render_and_hash(inner)
        IN [self |-> [self EXCEPT !.unflushed_links =
                                      Append(@, <<rendered[1], rendered[2].len, bytes>>)],
            out |-> <<<<rendered[1], rendered[2]>>>>]
    ELSE [self |-> self, out |-> <<>>]

\* Returns the adder after the call and the Option<(Cid, Vec<u8>)> result.
flush_buffered_leaf(self) ==
    IF self.block_buffer # <<>> THEN
        LET bytes == Len(self.block_buffer)
            inner == FlatUnixFs(<<>>,
                        UnixFs(UnixFsTypeFile, Some(self.block_buffer),
                               Some(Len(self.block_buffer)), <<>>))
            rendered == render_and_hash(inner)
            cid == rendered[1]
            vec == rendered[2]
            total_size == BlockLen(vec)
        IN [self |-> [self EXCEPT !.block_buffer = <<>>,
                                  !.unflushed_links = Append(@, <<cid, total_size, bytes>>)],
            out |-> Some(<<cid, vec>>)]
    ELSE [self |-> self, out |-> None]

\* Mutant of flush_buffered_links: Tsize is the size of the data below the
\* link.
flush_buffered_links_tsize_of_data(self, min_links) ==
    IF Len(self.unflushed_links) >= min_links THEN
        LET drained == self.unflushed_links
            links == [i \in 1..Len(drained) |->
                         [Hash |-> <<Cid_to_bytes(drained[i][1])>>, Name |-> <<"">>,
                          Tsize |-> <<drained[i][3]>>]]
            blocksizes == [i \in 1..Len(drained) |-> drained[i][3]]
            inner == [links |-> links,
                      data |-> [Type |-> "File", Data |-> <<>>,
                                filesize |-> <<SumSeq(blocksizes)>>, blocksizes |-> blocksizes,
                                hashType |-> <<>>, fanout |-> <<>>, mode |-> <<>>,
                                mtime |-> <<>>]]
            rendered == render_and_hash(inner)
        IN [self |-> [self EXCEPT !.unflushed_links = <<>>],
            out |-> <<<<rendered[1], rendered[2]>>>>]
    ELSE [self |-> self, out |-> <<>>]

flush_buffered_links(self, min_links) ==
    IF Len(self.unflushed_links) >= min_links THEN
        LET drained == self.unflushed_links
            links == [i \in 1..Len(drained) |->
                         PBLink(Some(Cid_to_bytes(drained[i][1])), Some(""), Some(drained[i][2]))]
            blocksizes == [i \in 1..Len(drained) |-> drained[i][3]]
            nested_size == SumSeq(blocksizes)
            inner == FlatUnixFs(links, UnixFs(UnixFsTypeFile, None, Some(nested_size), blocksizes))
            rendered == render_and_hash(inner)
        IN [self |-> [self EXCEPT !.unflushed_links = <<>>],
            out |-> Some(<<rendered[1], rendered[2]>>)]
    ELSE [self |-> self, out |-> None]

\* Option::into_iter().chain(Option::into_iter()) collected
Chain(a, b) == a \o b

\* Mutant of FileAdder_push: the links are flushed as finish flushes them,
\* whenever there is one.
FileAdder_push_flushes_any_links(self, input) ==
    LET acc == Chunker_accept(self.chunker, input, self.block_buffer)
        s1 == [self EXCEPT !.block_buffer = @ \o acc.accepted]
        written == Len(acc.accepted)
    IN IF ~acc.ready THEN
           [self |-> s1, blocks |-> <<>>, written |-> written, panicked |-> FALSE]
       ELSE
           LET leaf == flush_buffered_leaf(s1)
               links == flush_buffered_links(leaf.self, FinishLinks)
           IN IF leaf.out = <<>> THEN
                  [self |-> s1, blocks |-> <<>>, written |-> 0, panicked |-> TRUE]
              ELSE
                  [self |-> links.self, blocks |-> leaf.out \o links.out,
                   written |-> written, panicked |-> FALSE]

\* push: the adder after the call, the blocks of the returned iterator, the
\* bytes consumed, and whether the call panicked (unwrap of None at line 55).
FileAdder_push(self, input) ==
    LET acc == Chunker_accept(self.chunker, input, self.block_buffer)
        s1 == [self EXCEPT !.block_buffer = @ \o acc.accepted]
        written == Len(acc.accepted)
    IN IF ~acc.ready THEN
           [self |-> s1, blocks |-> <<>>, written |-> written, panicked |-> FALSE]
       ELSE
           LET leaf == flush_buffered_leaf(s1)
               links == flush_buffered_links(leaf.self, FanoutLinks)
           IN IF IsNone(leaf.out) THEN
                  [self |-> s1, blocks |-> <<>>, written |-> 0, panicked |-> TRUE]
              ELSE
                  [self |-> links.self, blocks |-> Chain(leaf.out, links.out),
                   written |-> written, panicked |-> FALSE]

\* Mutant of FileAdder_finish: the root link block is chained before the leaf.
FileAdder_finish_root_first(self) ==
    LET last_leaf == flush_buffered_leaf(self)
        root_links == flush_buffered_links(last_leaf.self, FinishLinks)
    IN root_links.out \o last_leaf.out

\* finish: the blocks of the returned iterator.
FileAdder_finish(self) ==
    LET last_leaf == flush_buffered_leaf(self)
        root_links == flush_buffered_links(last_leaf.self, FinishLinks)
    IN Chain(last_leaf.out, root_links.out)

\* ------------------------------------------------------------ FileReader
unwrap_or(o, default) == IF IsSome(o) THEN Unwrap(o) ELSE default

\* FileMetadata::from(&UnixFs): mtime becomes (Seconds, FractionalNanoseconds or 0).
FileMetadata_from(data) ==
    [mode |-> data.mode,
     mtime |-> IF IsSome(data.mtime)
                   THEN Some(<<Unwrap(data.mtime).Seconds,
                               unwrap_or(Unwrap(data.mtime).FractionalNanoseconds, 0)>>)
                   ELSE None]

TreeCoverage(n) == <<"TreeCoverage", n>>
Chunk(n) == <<"Chunk", n>>

\* Mutant of check_is_suitable_next: the overlap arm comes before the
\* expansion arm.
check_is_suitable_next_overlap_first(self, offset, next) ==
    IF self[1] = "TreeCoverage" /\ next[1] < self[2] /\ next[2] > self[2]
        THEN [ok |-> FALSE, panic |-> FALSE, error |-> "TreeOverlapsBetweenLinks"]
    ELSE IF self[1] = "TreeCoverage" /\ next[1] <= offset /\ next[2] > self[2]
        THEN [ok |-> FALSE, panic |-> FALSE, error |-> "TreeExpandsOnLinks"]
    ELSE IF self[1] = "TreeCoverage" /\ next[1] < offset
        THEN [ok |-> FALSE, panic |-> FALSE, error |-> "EarlierLink"]
    ELSE IF self[1] = "Chunk" /\ next[1] # self[2]
        THEN [ok |-> FALSE, panic |-> FALSE, error |-> "TreeJumpsBetweenLinks"]
    ELSE [ok |-> TRUE, value |-> <<>>]

\* Ending::check_is_suitable_next: Ok(()) or the FileError.
check_is_suitable_next(self, offset, next) ==
    IF self[1] = "TreeCoverage" /\ next[1] <= offset /\ next[2] > self[2]
        THEN Err("TreeExpandsOnLinks")
    ELSE IF self[1] = "TreeCoverage" /\ next[1] < self[2] /\ next[2] > self[2]
        THEN Err("TreeOverlapsBetweenLinks")
    ELSE IF self[1] = "TreeCoverage" /\ next[1] < offset
        THEN Err("EarlierLink")
    ELSE IF self[1] = "Chunk" /\ next[1] # self[2]
        THEN Err("TreeJumpsBetweenLinks")
    ELSE Ok(<<>>)

\* Mutant of FileReader_from_parts: hashType and fanout are looked at before
\* the links are counted against the blocksizes.
FileReader_from_parts_props_first(inner, offset, metadata) ==
    LET empty_or_no_content ==
            IF Len(inner.data.Data) = 1 THEN inner.data.Data[1] = <<>> ELSE TRUE
        is_zero_bytes == (IF Len(inner.data.filesize) = 1 THEN inner.data.filesize[1] ELSE 0) = 0
        leaf == inner.links = <<>>
        data == IF Len(inner.data.Data) = 1 THEN inner.data.Data[1] ELSE <<>>
    IN IF inner.data.Type # "File" /\ inner.data.Type # "Raw" THEN
           [ok |-> FALSE, panic |-> FALSE, error |-> "UnexpectedType"]
       ELSE IF inner.data.hashType # <<>> \/ inner.data.fanout # <<>> THEN
           [ok |-> FALSE, panic |-> FALSE, error |-> "UnexpectedRawOrFileProperties"]
       ELSE IF Len(inner.links) # Len(inner.data.blocksizes) THEN
           [ok |-> FALSE, panic |-> FALSE, error |-> "LinksAndBlocksizesMismatch"]
       ELSE IF empty_or_no_content /\ ~is_zero_bytes /\ leaf THEN
           [ok |-> FALSE, panic |-> FALSE, error |-> "NoLinksNoContent"]
       ELSE IF ~leaf /\ inner.data.filesize = <<>> THEN
           [ok |-> FALSE, panic |-> FALSE, error |-> "IntermediateNodeWithoutFileSize"]
       ELSE
           [ok |-> TRUE,
            value |-> [offset |-> offset,
                       end |-> IF leaf
                                   THEN <<"Chunk",
                                          offset + (IF Len(inner.data.filesize) = 1
                                                        THEN inner.data.filesize[1]
                                                        ELSE Len(data))>>
                                   ELSE <<"TreeCoverage", offset + inner.data.filesize[1]>>,
                       had_links |-> ~leaf, links |-> inner.links, data |-> data,
                       blocksizes |-> inner.data.blocksizes, metadata |-> metadata]]

\* Mutant of FileReader_from_parts: a block without links needs content,
\* whatever its filesize.
FileReader_from_parts_needs_content(inner, offset, metadata) ==
    LET empty_or_no_content ==
            IF Len(inner.data.Data) = 1 THEN inner.data.Data[1] = <<>> ELSE TRUE
        leaf == inner.links = <<>>
        data == IF Len(inner.data.Data) = 1 THEN inner.data.Data[1] ELSE <<>>
    IN IF inner.data.Type # "File" /\ inner.data.Type # "Raw" THEN
           [ok |-> FALSE, panic |-> FALSE, error |-> "UnexpectedType"]
       ELSE IF Len(inner.links) # Len(inner.data.blocksizes) THEN
           [ok |-> FALSE, panic |-> FALSE, error |-> "LinksAndBlocksizesMismatch"]
       ELSE IF empty_or_no_content /\ leaf THEN
           [ok |-> FALSE, panic |-> FALSE, error |-> "NoLinksNoContent"]
       ELSE IF inner.data.hashType # <<>> \/ inner.data.fanout # <<>> THEN
           [ok |-> FALSE, panic |-> FALSE, error |-> "UnexpectedRawOrFileProperties"]
       ELSE IF ~leaf /\ inner.data.filesize = <<>> THEN
           [ok |-> FALSE, panic |-> FALSE, error |-> "IntermediateNodeWithoutFileSize"]
       ELSE
           [ok |-> TRUE,
            value |-> [offset |-> offset,
                       end |-> IF leaf
                                   THEN <<"Chunk",
                                          offset + (IF Len(inner.data.filesize) = 1
                                                        THEN inner.data.filesize[1]
                                                        ELSE Len(data))>>
                                   ELSE <<"TreeCoverage", offset + inner.data.filesize[1]>>,
                       had_links |-> ~leaf, links |-> inner.links, data |-> data,
                       blocksizes |-> inner.data.blocksizes, metadata |-> metadata]]

FileReader_from_parts(inner, offset, metadata) ==
    LET empty_or_no_content ==
            IF IsSome(inner.data.Data) THEN Unwrap(inner.data.Data) = <<>> ELSE TRUE
        is_zero_bytes == unwrap_or(inner.data.filesize, 0) = 0
    IN IF inner.data.Type # UnixFsTypeFile /\ inner.data.Type # UnixFsTypeRaw THEN
           Err("UnexpectedType")
       ELSE IF Len(inner.links) # Len(inner.data.blocksizes) THEN
           Err("LinksAndBlocksizesMismatch")
       ELSE IF empty_or_no_content /\ ~is_zero_bytes /\ inner.links = <<>> THEN
           Err("NoLinksNoContent")
       ELSE
           LET data == unwrap_or(inner.data.Data, <<>>)
           IN IF IsSome(inner.data.hashType) \/ IsSome(inner.data.fanout) THEN
                  Err("UnexpectedRawOrFileProperties")
              ELSE IF inner.links # <<>> /\ IsNone(inner.data.filesize) THEN
                  Err("IntermediateNodeWithoutFileSize")
              ELSE
                  LET end == IF inner.links = <<>>
                                 THEN Chunk(offset + unwrap_or(inner.data.filesize, Len(data)))
                                 ELSE TreeCoverage(offset + Unwrap(inner.data.filesize))
                  IN Ok([offset |-> offset, end |-> end,
                         had_links |-> inner.links # <<>>,
                         links |-> inner.links, data |-> data,
                         blocksizes |-> inner.data.blocksizes, metadata |-> metadata])

FileReader_from_block(data) ==
    LET inner == FlatUnixFs_try_from(data)
    IN IF ~inner.ok THEN Err("Read")
       ELSE FileReader_from_parts(inner.value, 0, FileMetadata_from(inner.value.data))

\* Mutant of FileReader_from_continued: mode and mtime are not looked at.
FileReader_from_continued_any_metadata(traversal, offset, data) ==
    FileReader_from_parts(FlatUnixFs(data.Links, data.Data), offset, traversal.metadata)

FileReader_from_continued(traversal, offset, data) ==
    LET inner == FlatUnixFs_try_from(data)
    IN IF ~inner.ok THEN Err("Read")
       ELSE IF IsSome(inner.value.data.mode) \/ IsSome(inner.value.data.mtime) THEN
           Err("NonRootDefinesMetadata")
       ELSE FileReader_from_parts(inner.value, offset, traversal.metadata)

\* RangeLinks::from_links_and_blocksizes(zipped, Some(offset)): each link with
\* the file range offset + sum of the earlier blocksizes .. + its blocksize.
RangeLinks_from_links_and_blocksizes(links, blocksizes, offset) ==
    LET n == Min(Len(links), Len(blocksizes))
        start(i) == offset + SumSeq(SubSeq(blocksizes, 1, i - 1))
    IN [i \in 1..n |-> <<links[i], <<start(i), start(i) + blocksizes[i]>>>>]

\* FileReader::content: <<FileContent, Traversal>>
FileReader_content(self) ==
    LET traversal == [last_had_links |-> ~self.had_links,
                      last_ending |-> self.end,
                      last_offset |-> self.offset,
                      metadata |-> self.metadata]
    IN IF self.links = <<>> THEN
           <<[just |-> TRUE, data |-> self.data], traversal>>
       ELSE
           <<[just |-> FALSE,
              iter |-> RangeLinks_from_links_and_blocksizes(self.links, self.blocksizes,
                                                            self.offset)],
             traversal>>

\* Mutant of Traversal_continue_walk: the block is read before the range is
\* checked.
Traversal_continue_walk_reads_first(self, next_block, tree_range) ==
    LET suitable == check_is_suitable_next(self.last_ending, self.last_offset, tree_range)
        fr == FileReader_from_continued(self, tree_range[1], next_block)
    IN IF ~fr.ok THEN fr
       ELSE IF ~suitable.ok THEN suitable
       ELSE fr

Traversal_continue_walk(self, next_block, tree_range) ==
    LET suitable == check_is_suitable_next(self.last_ending, self.last_offset, tree_range)
    IN IF ~suitable.ok THEN suitable
       ELSE FileReader_from_continued(self, tree_range[1], next_block)

\* ------------------------------------------------------------ visit
partially_match_range(block, target) ==
    Max(block[1], target[1]) <= Min(block[2], target[2])

\* &content[start..end]
Slice(content, start, end) ==
    IF 0 <= start /\ start <= end /\ end <= Len(content)
        THEN Ok(SubSeq(content, start + 1, end))
        ELSE Panic("slice index out of range")

\* Mutant of overlapping_slice: the end of the inside case is the length of
\* the target.
overlapping_slice_inside_from_zero(content, block, target) ==
    IF ~partially_match_range(block, target) THEN [ok |-> TRUE, value |-> <<>>]
    ELSE IF target[1] < block[1] THEN
        Slice(content, 0, Min(target[2], block[2]) - block[1])
    ELSE IF target[2] > block[2] THEN
        Slice(content, target[1] - block[1], Min(target[2], block[2]) - block[1])
    ELSE
        Slice(content, target[1] - block[1], target[2] - target[1])

overlapping_slice(content, block, target) ==
    IF ~partially_match_range(block, target) THEN Ok(<<>>)
    ELSE IF target[1] < block[1] THEN
        Slice(content, 0, Min(target[2], block[2]) - block[1])
    ELSE IF target[2] > block[2] THEN
        Slice(content, target[1] - block[1], Min(target[2], block[2]) - block[1])
    ELSE
        Slice(content, target[1] - block[1], (target[1] - block[1]) + (target[2] - target[1]))

to_pending(nth, link, range) ==
    IF IsNone(link.Hash) THEN Panic("Unexpected None")
    ELSE LET cid == Cid_try_from(Unwrap(link.Hash))
         IN IF cid.ok THEN Ok(<<cid.value, range>>) ELSE Err("LinkInvalidCid")

\* The links of a Spread iterator which match the target range, each turned
\* into a pending entry, in link order.
MatchingPending(iter, target_range) ==
    LET idx == SelectSeq([i \in 1..Len(iter) |-> i],
                         LAMBDA i : IsNone(target_range)
                                    \/ partially_match_range(iter[i][2], Unwrap(target_range)))
    IN [k \in 1..Len(idx) |-> to_pending(idx[k] - 1, iter[idx[k]][1], iter[idx[k]][2])]

\* The failure at which the iteration over the links stops, if any.
FirstFailure(results) ==
    IF \E k \in 1..Len(results) : ~results[k].ok
        THEN Some(results[CHOOSE k \in 1..Len(results) :
                              /\ ~results[k].ok
                              /\ \A j \in 1..(k - 1) : results[j].ok])
        ELSE None

Values(results) == [k \in 1..Len(results) |-> results[k].value]

\* Visitation::Completed is visit = None, Visitation::Continues(v) is Some(v).
Visitation(content, visit) == [content |-> content, visit |-> visit]

FileVisit(pending, range, state) == [pending |-> pending, range |-> range, state |-> state]

IdleFileVisit_start(range, block) ==
    LET fr == FileReader_from_block(block)
    IN IF ~fr.ok THEN fr
       ELSE
           LET ct == FileReader_content(fr.value)
               content == ct[1]
               traversal == ct[2]
           IN IF content.just THEN
                  LET sliced == IF IsSome(range)
                                    THEN Slice(content.data, Unwrap(range)[1], Unwrap(range)[2])
                                    ELSE Ok(content.data)
                  IN IF ~sliced.ok THEN sliced
                     ELSE Ok(Visitation(sliced.value, None))
              ELSE
                  LET results == MatchingPending(content.iter, range)
                      failure == FirstFailure(results)
                      pending == Reverse(Values(results))
                  IN IF IsSome(failure) THEN Unwrap(failure)
                     ELSE IF pending = <<>> THEN Ok(Visitation(<<>>, None))
                     ELSE Ok(Visitation(<<>>, Some(FileVisit(pending, range, traversal))))

\* Mutant of FileVisit_pending_links: the iterator drains the pending stack.
FileVisit_pending_links_draining(self) ==
    [self |-> [self EXCEPT !.pending = <<>>],
     links |-> [i \in 1..Len(self.pending) |-> self.pending[Len(self.pending) + 1 - i][1]]]

\* pending_links(&self): the visit after the call and the items of the
\* returned iterator, self.pending.iter().rev().map(|(link, _)| link).
FileVisit_pending_links(self) ==
    [self |-> self,
     links |-> Reverse([i \in 1..Len(self.pending) |-> self.pending[i][1]])]

\* Mutant of FileVisit_continue_walk: the newly pushed span is not reversed.
FileVisit_continue_walk_unreversed(self, next) ==
    IF self.pending = <<>> THEN
        [ok |-> FALSE, panic |-> TRUE,
         error |-> "User called continue_walk there must have been a next link"]
    ELSE
        LET range == self.pending[Len(self.pending)][2]
            popped == SubSeq(self.pending, 1, Len(self.pending) - 1)
            fr == Traversal_continue_walk(self.state, next, range)
        IN IF ~fr.ok THEN fr
           ELSE
               LET ct == FileReader_content(fr.value)
               IN IF ct[1].just THEN
                      LET sliced == IF self.range # <<>>
                                        THEN overlapping_slice(ct[1].data, range, self.range[1])
                                        ELSE [ok |-> TRUE, value |-> ct[1].data]
                      IN IF ~sliced.ok THEN sliced
                         ELSE [ok |-> TRUE,
                               value |-> [content |-> sliced.value,
                                          visit |-> IF popped # <<>>
                                                        THEN <<[pending |-> popped,
                                                                range |-> self.range,
                                                                state |-> ct[2]]>>
                                                        ELSE <<>>]]
                  ELSE
                      LET results == MatchingPending(ct[1].iter, self.range)
                          failure == FirstFailure(results)
                      IN IF failure # <<>> THEN failure[1]
                         ELSE [ok |-> TRUE,
                               value |-> [content |-> <<>>,
                                          visit |-> <<[pending |-> popped \o Values(results),
                                                       range |-> self.range,
                                                       state |-> ct[2]]>>]]

FileVisit_continue_walk(self, next) ==
    IF self.pending = <<>> THEN
        Panic("User called continue_walk there must have been a next link")
    ELSE
        LET range == self.pending[Len(self.pending)][2]
            popped == SubSeq(self.pending, 1, Len(self.pending) - 1)
            fr == Traversal_continue_walk(self.state, next, range)
        IN IF ~fr.ok THEN fr
           ELSE
               LET ct == FileReader_content(fr.value)
                   content == ct[1]
                   traversal == ct[2]
               IN IF content.just THEN
                      LET sliced == IF IsSome(self.range)
                                        THEN overlapping_slice(content.data, range,
                                                               Unwrap(self.range))
                                        ELSE Ok(content.data)
                      IN IF ~sliced.ok THEN sliced
                         ELSE IF popped # <<>> THEN
                             Ok(Visitation(sliced.value,
                                           Some(FileVisit(popped, self.range, traversal))))
                         ELSE Ok(Visitation(sliced.value, None))
                  ELSE
                      LET results == MatchingPending(content.iter, self.range)
                          failure == FirstFailure(results)
                      IN IF IsSome(failure) THEN Unwrap(failure)
                         ELSE Ok(Visitation(<<>>,
                                    Some(FileVisit(popped \o Reverse(Values(results)),
                                                   self.range, traversal))))

\* Visitor::visit_metadata(&metadata) and Visitor::visit_content(content), as
\* the visitor receives them.
Visitor_visit_metadata(metadata) == [fn |-> "visit_metadata", metadata |-> metadata]
Visitor_visit_content(bytes) == [fn |-> "visit_content", bytes |-> bytes]

\* The callbacks start makes: visit_metadata once from_block has parsed the
\* root, then visit_content with the slice it returns when the root is a leaf.
IdleFileVisit_start_visitor(range, block) ==
    LET fr == FileReader_from_block(block)
    IN IF ~fr.ok THEN <<>>
       ELSE LET r == IdleFileVisit_start(range, block)
            IN <<Visitor_visit_metadata(fr.value.metadata)>>
               \o (IF FileReader_content(fr.value)[1].just /\ r.ok
                       THEN <<Visitor_visit_content(r.value.content)>>
                       ELSE <<>>)

\* The callbacks continue_walk makes: visit_content with the slice it returns
\* when the block is a leaf.
FileVisit_continue_walk_visitor(self, next) ==
    IF self.pending = <<>> THEN <<>>
    ELSE LET fr == Traversal_continue_walk(self.state, next,
                                           self.pending[Len(self.pending)][2])
         IN IF ~fr.ok THEN <<>>
            ELSE LET r == FileVisit_continue_walk(self, next)
                 IN IF FileReader_content(fr.value)[1].just /\ r.ok
                        THEN <<Visitor_visit_content(r.value.content)>>
                        ELSE <<>>

\* ------------------------------------------------------------ state
VARIABLES
    adder,            \* the FileAdder
    content,          \* the byte stream the caller adds
    written,          \* the caller's count of bytes the adder has consumed
    consumed,         \* the accepted prefixes of the push inputs, concatenated
    last_push,        \* input length and results of the latest push call
    blocks_received,  \* the (cid, bytes) blocks emitted so far, in order
    finish_blocks,    \* the blocks returned by finish
    phase,            \* where the caller is
    target,           \* the walk's target range
    visit,            \* the FileVisit of Visitation::Continues
    yielded,          \* the byte chunks returned by start and continue_walk
    walk_error,       \* the error or panic which ended the walk
    visited,          \* the (cid, range) entries continue_walk popped, in order
    prefetched,       \* the visit before and the links of the latest pending_links
    visitor,          \* the callbacks the Visitor of the walk was given, in order
    call,             \* a single call of a function of the reader: inputs, result
    cat               \* the cat operation: its stream and its prefetch task

vars == <<adder, content, written, consumed, last_push, blocks_received, finish_blocks,
          phase, target, visit, yielded, walk_error, visited, prefetched, visitor, call, cat>>

adder_vars == <<adder, content, written, consumed, last_push, blocks_received, finish_blocks>>
walk_vars == <<target, visit, yielded, walk_error, visited, prefetched, visitor>>

\* Every byte stream of at most MaxLen bytes.
ShortStreams == UNION {[1..n -> Bytes] : n \in 0..MaxLen}

\* A stream long enough for push to collect FanoutLinks links and go on.
LongStream == [i \in 1..(FanoutLinks + ExtraLeaves) |-> i % 2]

\* No target range, or a..b with a <= b.
TargetRanges ==
    {None} \cup {Some(r) : r \in {q \in (0..MaxRange) \X (0..MaxRange) : q[1] <= q[2]}}

\* No call of a reader function is being made.
NoCall == [fn |-> "none", done |-> TRUE]

\* No cat operation is being made.
NoCat ==
    [pc |-> "none", missing |-> {}, result |-> None, first |-> None, items |-> <<>>,
     prefetch |-> TRUE, last_pending |-> None, channel |-> <<>>, tx_open |-> FALSE,
     in_flight |-> <<>>, task |-> "unspawned", panic |-> None]

NoPush ==
    [called |-> FALSE, input |-> <<>>, buffered |-> <<>>, accepted |-> <<>>, ready |-> FALSE,
     written |-> 0, blocks |-> <<>>, panicked |-> FALSE]

Init ==
    /\ \/ \E max \in 0..MaxChunk :
            /\ adder = FileAdder_with_chunker(max)
            /\ content \in ShortStreams
       \/ /\ adder = FileAdder_with_chunker(1)
          /\ content = LongStream
    /\ written = 0
    /\ consumed = <<>>
    /\ last_push = NoPush
    /\ blocks_received = <<>>
    /\ finish_blocks = <<>>
    /\ phase = "adding"
    /\ target = None
    /\ visit = None
    /\ yielded = <<>>
    /\ walk_error = None
    /\ visited = <<>>
    /\ prefetched = None
    /\ visitor = <<>>
    /\ call = NoCall
    /\ cat = NoCat

\* The caller hands the adder a slice of the stream starting at the first
\* byte the adder has not consumed yet, and counts what push reports consumed.
Push ==
    /\ phase = "adding"
    /\ \E n \in 0..MaxPush :
        /\ written + n <= Len(content)
        /\ LET input == SubSeq(content, written + 1, written + n)
               acc == Chunker_accept(adder.chunker, input, adder.block_buffer)
               r == FileAdder_push(adder, input)
           IN /\ last_push' = [called |-> TRUE, input |-> input,
                               buffered |-> adder.block_buffer,
                               accepted |-> acc.accepted, ready |-> acc.ready,
                               written |-> r.written, blocks |-> r.blocks,
                               panicked |-> r.panicked]
              /\ adder' = r.self
              /\ written' = written + r.written
              /\ consumed' = consumed \o SubSeq(input, 1, r.written)
              /\ blocks_received' = blocks_received \o r.blocks
              /\ phase' = IF r.panicked THEN "push_panicked" ELSE "adding"
    /\ UNCHANGED <<content, finish_blocks, call, cat>>
    /\ UNCHANGED walk_vars

\* The caller has pushed the whole stream and finishes the adder.
Finish ==
    /\ phase = "adding"
    /\ written = Len(content)
    /\ LET blocks == FileAdder_finish(adder)
       IN /\ finish_blocks' = blocks
          /\ blocks_received' = blocks_received \o blocks
    /\ phase' = "finished"
    /\ UNCHANGED <<adder, content, written, consumed, last_push, call, cat>>
    /\ UNCHANGED walk_vars

\* The block store holds the emitted blocks under their cids.
get_block(cid) ==
    IF \E i \in 1..Len(blocks_received) : blocks_received[i][1] = cid
        THEN Ok((blocks_received[CHOOSE i \in 1..Len(blocks_received) :
                                    blocks_received[i][1] = cid])[2])
        ELSE Err("Loading")

\* The phase, visit, chunks and error after start or continue_walk returned r.
AfterWalkCall(r) ==
    IF r.ok THEN
        /\ yielded' = Append(yielded, r.value.content)
        /\ visit' = r.value.visit
        /\ phase' = IF IsSome(r.value.visit) THEN "walking" ELSE "completed"
        /\ walk_error' = None
    ELSE
        /\ yielded' = yielded
        /\ visit' = None
        /\ phase' = IF r.panic THEN "walk_panicked" ELSE "failed"
        /\ walk_error' = Some(r.error)

\* The root is the last block emitted.
RootBlock == blocks_received[Len(blocks_received)]

StartWalk ==
    /\ phase = "finished"
    /\ blocks_received # <<>>
    /\ \E r \in TargetRanges :
        /\ target' = r
        /\ AfterWalkCall(IdleFileVisit_start(r, RootBlock[2]))
        /\ visitor' = visitor \o IdleFileVisit_start_visitor(r, RootBlock[2])
    /\ UNCHANGED <<visited, prefetched, call, cat>>
    /\ UNCHANGED adder_vars

\* The driver reads the pending links, to prefetch their blocks.
PendingLinks ==
    /\ phase = "walking"
    /\ LET r == FileVisit_pending_links(Unwrap(visit))
       IN /\ visit' = Some(r.self)
          /\ prefetched' = Some([before |-> Unwrap(visit), links |-> r.links])
    /\ UNCHANGED <<phase, target, yielded, walk_error, visited, visitor, call, cat>>
    /\ UNCHANGED adder_vars

\* The driver loads the block of the first pending link and continues.
ContinueWalk ==
    /\ phase = "walking"
    /\ LET r == FileVisit_pending_links(Unwrap(visit))
           links == r.links
       IN IF links = <<>> THEN
              /\ AfterWalkCall(Panic("pending_links().next().unwrap()"))
              /\ visited' = visited
              /\ visitor' = visitor
          ELSE LET block == get_block(Head(links))
               IN IF ~block.ok THEN
                      /\ AfterWalkCall(block)
                      /\ visited' = visited
                      /\ visitor' = visitor
                  ELSE
                      /\ AfterWalkCall(FileVisit_continue_walk(r.self, block.value))
                      /\ visited' = Append(visited, r.self.pending[Len(r.self.pending)])
                      /\ visitor' = visitor
                                        \o FileVisit_continue_walk_visitor(r.self, block.value)
    /\ prefetched' = None
    /\ UNCHANGED <<target, call, cat>>
    /\ UNCHANGED adder_vars

Next == Push \/ Finish \/ StartWalk \/ ContinueWalk

Spec == Init /\ [][Next]_vars

\* ------------------------------------------------------------ reader calls
\* Single calls of FileReader::from_block, Ending::check_is_suitable_next,
\* Traversal::continue_walk, IdleFileVisit::start on a block without links,
\* and overlapping_slice, on every input of a bounded set.

\* The block of tests::empty_file, and a link to it.
EmptyFileBlock ==
    write_message(FlatUnixFs(<<>>, UnixFs(UnixFsTypeFile, None, Some(0), <<>>)))

LinkToEmptyFile ==
    PBLink(Some(Cid_to_bytes(Cid_new_v0(EmptyFileBlock))), Some(""),
           Some(BlockLen(EmptyFileBlock)))

\* The UnixFs types, by name: Raw, Directory, File, Metadata, Symlink, HAMTShard.
UnixFsTypes == {UnixFsTypeRaw, "Directory", UnixFsTypeFile, "Symlink"}

OptionalData == {None, Some(<<>>), Some(<<0>>)}
OptionalSize == {None, Some(0), Some(1)}
OptionalMode == {None, Some(420)}
OptionalMTime == {None, Some(UnixTime(1, None)), Some(UnixTime(1, Some(5)))}

\* Every PBNode with up to MaxLinks links and up to MaxLinks blocksizes.
EncodedBlocks ==
    {write_message(FlatUnixFs([i \in 1..x.links |-> LinkToEmptyFile],
                              [Type |-> x.Type, Data |-> x.Data, filesize |-> x.filesize,
                               blocksizes |-> [i \in 1..x.blocksizes |-> 1],
                               hashType |-> x.hashType, fanout |-> x.fanout,
                               mode |-> x.mode, mtime |-> x.mtime])) :
        x \in [Type : UnixFsTypes, Data : OptionalData, filesize : OptionalSize,
               links : 0..MaxLinks, blocksizes : 0..MaxLinks,
               hashType : {None, Some(1)}, fanout : {None, Some(1)},
               mode : OptionalMode, mtime : {None, Some(UnixTime(1, None))}]}

Endings == {TreeCoverage(e) : e \in 0..MaxRange} \cup {Chunk(e) : e \in 0..MaxRange}

\* Range<u64> a..b with a <= b.
Ranges == {q \in (0..MaxRange) \X (0..MaxRange) : q[1] <= q[2]}

\* A block of which the last byte is missing.
Truncated(block) == [block EXCEPT !.len = @ - 1]

\* Non-root blocks: a leaf or a block with one link, with or without
\* metadata, with or without a blocksize too many; and a truncated leaf.
ContinuedBlocks ==
    {write_message(FlatUnixFs(IF x.leaf THEN <<>> ELSE <<LinkToEmptyFile>>,
                              [UnixFs(UnixFsTypeFile,
                                      IF x.leaf THEN Some(<<0>>) ELSE None,
                                      Some(1),
                                      [i \in 1..((IF x.leaf THEN 0 ELSE 1) + x.extra) |-> 1])
                                   EXCEPT !.mode = x.mode, !.mtime = x.mtime])) :
        x \in [leaf : BOOLEAN, mode : OptionalMode, mtime : OptionalMTime, extra : 0..1]}
    \cup {Truncated(write_message(FlatUnixFs(<<>>, UnixFs(UnixFsTypeFile, Some(<<0>>),
                                                         Some(1), <<>>))))}

\* The metadata of a root block which carries mode and mtime.
RootMetadata == [mode |-> Some(420), mtime |-> Some(<<1, 0>>)]

\* The target ranges of the single calls of start: none, an empty one, and
\* one of a byte.
StartRanges == {None, Some(<<0, 0>>), Some(<<0, 1>>)}

\* The content of a block which covers the file range block: every byte
\* holds its offset in the file.
ContentOf(block) == [i \in 1..(block[2] - block[1]) |-> block[1] + i - 1]

CallInputs ==
    {[fn |-> "from_block", done |-> FALSE, data |-> b] : b \in EncodedBlocks}
    \cup {[fn |-> "check_is_suitable_next", done |-> FALSE,
           ending |-> e, offset |-> o, next |-> n] :
              e \in Endings, o \in 0..MaxRange, n \in Ranges}
    \cup {[fn |-> "start", done |-> FALSE, range |-> r, data |-> b] :
              r \in StartRanges, b \in {e \in EncodedBlocks : e.Links = <<>>}}
    \cup {[fn |-> "content", done |-> FALSE, data |-> b] :
              b \in {e \in EncodedBlocks : FileReader_from_block(e).ok}}
    \cup {[fn |-> "overlapping_slice", done |-> FALSE,
           bytes |-> ContentOf(b), block |-> b, within |-> t] :
              b \in Ranges, t \in Ranges}
    \cup {[fn |-> "continue_walk", done |-> FALSE,
           traversal |-> [last_had_links |-> FALSE, last_ending |-> e,
                          last_offset |-> o, metadata |-> RootMetadata],
           next_block |-> b, tree_range |-> n] :
              e \in Endings, o \in 0..MaxRange, n \in Ranges, b \in ContinuedBlocks}

FnInit ==
    /\ adder = FileAdder_with_chunker(1)
    /\ content = <<>>
    /\ written = 0
    /\ consumed = <<>>
    /\ last_push = NoPush
    /\ blocks_received = <<>>
    /\ finish_blocks = <<>>
    /\ phase = "calling"
    /\ target = None
    /\ visit = None
    /\ yielded = <<>>
    /\ walk_error = None
    /\ visited = <<>>
    /\ prefetched = None
    /\ visitor = <<>>
    /\ call \in CallInputs
    /\ cat = NoCat

\* The call returns r.
Returns(r) ==
    /\ call' = [call EXCEPT !.done = TRUE] @@ [result |-> r]
    /\ UNCHANGED <<phase, target, cat>>
    /\ UNCHANGED <<visit, yielded, walk_error, visited, prefetched, visitor>>
    /\ UNCHANGED adder_vars

FromBlock ==
    /\ call.fn = "from_block" /\ ~call.done
    /\ Returns(FileReader_from_block(call.data))

CheckIsSuitableNext ==
    /\ call.fn = "check_is_suitable_next" /\ ~call.done
    /\ Returns(check_is_suitable_next(call.ending, call.offset, call.next))

TraversalContinueWalk ==
    /\ call.fn = "continue_walk" /\ ~call.done
    /\ Returns(Traversal_continue_walk(call.traversal, call.next_block, call.tree_range))

IdleFileVisitStart ==
    /\ call.fn = "start" /\ ~call.done
    /\ Returns(IdleFileVisit_start(call.range, call.data))

OverlappingSlice ==
    /\ call.fn = "overlapping_slice" /\ ~call.done
    /\ Returns(overlapping_slice(call.bytes, call.block, call.within))

\* content() of the reader of a block.
FileReaderContent ==
    /\ call.fn = "content" /\ ~call.done
    /\ Returns(Ok(FileReader_content(FileReader_from_block(call.data).value)))

FnNext ==
    \/ FromBlock \/ CheckIsSuitableNext \/ TraversalContinueWalk \/ IdleFileVisitStart
    \/ OverlappingSlice \/ FileReaderContent

FnSpec == FnInit /\ [][FnNext]_vars

\* ------------------------------------------------------------ walks of any tree
\* Walks over file trees which no adder built: the trees of the tests of
\* file.rs, and trees whose blocksizes and filesizes do not add up.

\* A leaf block of a file: its data, and the filesize it declares.
Leaf(data, filesize) ==
    render_and_hash(FlatUnixFs(<<>>, UnixFs(UnixFsTypeFile, Some(data), filesize, <<>>)))

\* The link to a stored block <<cid, bytes>>.
LinkTo(b) == PBLink(Some(Cid_to_bytes(b[1])), Some(""), Some(BlockLen(b[2])))

\* A block linking to the children, with the blocksizes and filesize given.
Interior(children, blocksizes, filesize) ==
    render_and_hash(FlatUnixFs([i \in 1..Len(children) |-> LinkTo(children[i])],
                               UnixFs(UnixFsTypeFile, None, filesize, blocksizes)))

\* n bytes of a file, starting at the given offset.
BytesAt(offset, n) == [i \in 1..n |-> (offset + i) % 2]

\* The leaves of a file whose leaf lengths are lens, in order.
LeavesOf(lens) ==
    [i \in 1..Len(lens) |->
        Leaf(BytesAt(SumSeq(SubSeq(lens, 1, i - 1)), lens[i]), Some(lens[i]))]

\* tests::traversal: "foobar\n" added with chunks of 2 bytes, the root last.
FoobarTree ==
    LET leaves == <<Leaf(<<102, 111>>, Some(2)), Leaf(<<111, 98>>, Some(2)),
                    Leaf(<<97, 114>>, Some(2)), Leaf(<<10>>, Some(1))>>
    IN Append(leaves, Interior(leaves, <<2, 2, 2, 1>>, Some(7)))

\* tests::just_content and tests::empty_file: the root is a leaf.
SingleBlockTrees ==
    {<<Leaf(BytesAt(0, n), Some(n))>> : n \in 0..MaxBlocksize}

\* A root above up to MaxLinks leaves of 1..MaxBlocksize bytes, sizes adding up.
BalancedTrees ==
    {LET leaves == LeavesOf(lens)
     IN Append(leaves, Interior(leaves, lens, Some(SumSeq(lens)))) :
        lens \in UNION {[1..k -> 1..MaxBlocksize] : k \in 1..MaxLinks}}

\* A root above two leaves of one byte: any blocksizes, any filesize or none.
MisdeclaredTrees ==
    {LET leaves == LeavesOf(<<1, 1>>)
     IN Append(leaves, Interior(leaves, x.blocksizes, x.filesize)) :
        x \in [blocksizes : (0..MaxBlocksize) \X (0..MaxBlocksize),
               filesize : {None} \cup {Some(f) : f \in 0..(MaxBlocksize + MaxBlocksize)}]}

\* A root above a subtree of one leaf and a second leaf of one byte: the
\* subtree's blocksize in the root, and its own blocksize and filesize, vary.
NestedTrees ==
    {LET first == Leaf(BytesAt(0, x.len), Some(x.len))
         subtree == Interior(<<first>>, <<x.inner>>, Some(x.filesize))
         second == Leaf(BytesAt(x.len, 1), Some(1))
     IN <<first, subtree, second,
          Interior(<<subtree, second>>, <<x.outer, 1>>, Some(x.outer + 1))>> :
        x \in [len : 1..MaxBlocksize, inner : 0..MaxBlocksize,
               filesize : 0..MaxBlocksize, outer : 0..MaxBlocksize]}

\* A root above a subtree of two leaves and a third leaf, sizes adding up.
DeepTrees ==
    {LET below == LeavesOf(<<a, 1>>)
         subtree == Interior(below, <<a, 1>>, Some(a + 1))
         third == Leaf(BytesAt(a + 1, b), Some(b))
     IN below \o <<subtree, third,
                   Interior(<<subtree, third>>, <<a + 1, b>>, Some(a + 1 + b))>> :
        a \in 1..MaxBlocksize, b \in 1..MaxBlocksize}

\* A root above two leaves, the first of which declares any filesize or none
\* whatever data it holds, and is given any blocksize by the root.
MissizedLeafTrees ==
    {LET first == Leaf(BytesAt(0, x.len), x.filesize)
         second == Leaf(BytesAt(x.len, 1), Some(1))
     IN <<first, second,
          Interior(<<first, second>>, <<x.blocksize, 1>>, Some(x.blocksize + 1))>> :
        x \in [len : 0..MaxBlocksize,
               filesize : {None} \cup {Some(f) : f \in 0..MaxBlocksize},
               blocksize : 0..MaxBlocksize]}

\* A link to a stored block whose Hash is not the bytes of a cid.
InvalidLinkTo(b) == [LinkTo(b) EXCEPT !.Hash = Some(<<"invalid", b[1]>>)]

\* A root, with or without mode and mtime, above two leaves of one byte or
\* above a subtree of them: the link at one place, in the root or in the
\* subtree, may hold a Hash which is not a cid.
InvalidLinkTrees ==
    {LET leaves == LeavesOf(<<1, 1>>)
         links == [i \in 1..2 |-> IF i = x.bad THEN InvalidLinkTo(leaves[i])
                                               ELSE LinkTo(leaves[i])]
         data == [UnixFs(UnixFsTypeFile, None, Some(2), <<1, 1>>)
                      EXCEPT !.mode = IF x.nested THEN None ELSE x.mode,
                             !.mtime = IF x.nested THEN None ELSE x.mtime]
         above == render_and_hash(FlatUnixFs(links, data))
         root == render_and_hash(
                     FlatUnixFs(<<LinkTo(above)>>,
                                [UnixFs(UnixFsTypeFile, None, Some(2), <<2>>)
                                     EXCEPT !.mode = x.mode, !.mtime = x.mtime]))
     IN IF x.nested THEN leaves \o <<above, root>> ELSE Append(leaves, above) :
        x \in [bad : 0..2, nested : BOOLEAN, mode : {None, Some(420)},
               mtime : {None, Some(UnixTime(1, None))}]}

WalkTrees ==
    {FoobarTree} \cup SingleBlockTrees \cup BalancedTrees \cup MisdeclaredTrees
        \cup NestedTrees \cup DeepTrees \cup MissizedLeafTrees \cup InvalidLinkTrees

\* The data of the leaves below a stored block, left to right.
RECURSIVE SubtreeBytes(_, _)
SubtreeBytes(store, b) ==
    IF b[2].Links = <<>> THEN unwrap_or(b[2].Data.Data, <<>>)
    ELSE Flatten([i \in 1..Len(b[2].Links) |->
                     SubtreeBytes(store,
                                  store[CHOOSE k \in 1..Len(store) :
                                            store[k][1] = Unwrap(b[2].Links[i].Hash)[2]])])

WalkInit ==
    /\ adder = FileAdder_with_chunker(1)
    /\ blocks_received \in WalkTrees
    /\ content = SubtreeBytes(blocks_received, blocks_received[Len(blocks_received)])
    /\ written = 0
    /\ consumed = <<>>
    /\ last_push = NoPush
    /\ finish_blocks = <<>>
    /\ phase = "finished"
    /\ target = None
    /\ visit = None
    /\ yielded = <<>>
    /\ walk_error = None
    /\ visited = <<>>
    /\ prefetched = None
    /\ visitor = <<>>
    /\ call = NoCall
    /\ cat = NoCat

WalkNext == StartWalk \/ PendingLinks \/ ContinueWalk

WalkSpec == WalkInit /\ [][WalkNext]_vars

\* ------------------------------------------------------------ emitted blocks
\* A block is <<cid, bytes>>; a leaf has no links.
IsLeafBlock(b) == b[2].Links = <<>>
IsLinkBlock(b) == b[2].Links # <<>>
LeafData(b) == unwrap_or(b[2].Data.Data, <<>>)

\* The cids a block links to.
LinkedCids(b) == {Unwrap(b[2].Links[i].Hash)[2] : i \in 1..Len(b[2].Links)}

LeafBlocks(blocks) == SelectSeq(blocks, IsLeafBlock)
LinkBlocks(blocks) == SelectSeq(blocks, IsLinkBlock)

\* The data of the leaves among blocks, concatenated in emission order.
LeafBytes(blocks) ==
    LET leaves == LeafBlocks(blocks)
    IN Flatten([i \in 1..Len(leaves) |-> LeafData(leaves[i])])

\* The blocks emitted by the push calls (those not returned by finish).
PushBlocks == SubSeq(blocks_received, 1, Len(blocks_received) - Len(finish_blocks))

EmittedCids == {blocks_received[i][1] : i \in 1..Len(blocks_received)}

BlockOf(cid) == blocks_received[CHOOSE i \in 1..Len(blocks_received) : blocks_received[i][1] = cid]

\* The emitted cids no emitted block links to.
UnlinkedCids ==
    {c \in EmittedCids : \A d \in EmittedCids : c \notin LinkedCids(BlockOf(d))}

RECURSIVE ReachableFrom(_)
ReachableFrom(cids) ==
    LET more == cids \cup UNION {LinkedCids(BlockOf(c)) \cap EmittedCids : c \in cids}
    IN IF more = cids THEN cids ELSE ReachableFrom(more)

WalkEnded == phase \in {"completed", "failed", "walk_panicked"}
AdderFinished == phase \in {"finished", "walking", "completed", "failed", "walk_panicked"}

\* The blocks received by a caller which pushes the whole unconsumed tail on
\* every call until all is written, and then finishes.
RECURSIVE AddWholeTail(_, _, _)
AddWholeTail(self, rest, received) ==
    IF rest = <<>> THEN received \o FileAdder_finish(self)
    ELSE LET r == FileAdder_push(self, rest)
         IN IF r.panicked THEN received
            ELSE AddWholeTail(r.self, SubSeq(rest, r.written + 1, Len(rest)),
                              received \o r.blocks)

\* ------------------------------------------------------------ cat
\* The cat operation of the node (src/unixfs/cat.rs): it starts the visit on
\* the root block, spawns a task which prefetches the pending links it is
\* sent, and returns a stream which loads the block of the first pending
\* link, continues the walk with it and yields the bytes, until the visit
\* completes or fails.

TraversalFailed_Loading(cid, e) == [kind |-> "Loading", cid |-> cid, source |-> e]
TraversalFailed_Walking(cid, e) == [kind |-> "Walking", cid |-> cid, source |-> e]

\* Mutant of Ipfs_get_block: the block returned carries the cid of the root.
Ipfs_get_block_root_cid(missing, cid) ==
    IF cid \in missing \/ ~get_block(cid).ok
        THEN [ok |-> FALSE, panic |-> FALSE, error |-> "get_block"]
        ELSE [ok |-> TRUE,
              value |-> [cid |-> blocks_received[Len(blocks_received)][1],
                         data |-> get_block(cid).value]]

\* ipfs.get_block(&cid).await: the Block { cid, data } of the store, or the
\* error of a block which cannot be loaded.
Ipfs_get_block(missing, cid) ==
    IF cid \in missing \/ ~get_block(cid).ok
        THEN Err("get_block")
        ELSE Ok([cid |-> cid, data |-> get_block(cid).value])

\* let (next, links) = visit.pending_links(): the first pending link, and the
\* pending links behind it.
pending_links_next_and_links(self) ==
    LET all == FileVisit_pending_links(self).links
    IN [next |-> Head(all), links |-> Tail(all)]

\* yield item
yield_item(c, item) == [c EXCEPT !.items = Append(@, item)]

\* Mutant of stream_break: the sender is kept while the task is joined.
stream_break_keeps_sender(c) == [c EXCEPT !.pc = "joining"]

\* break: the loop is left, the sender is dropped and the task is joined.
stream_break(c) == [c EXCEPT !.pc = "joining", !.tx_open = FALSE]

\* Mutant of stream_on_error: the loop is not left.
stream_on_error_continues(c, e) ==
    [c EXCEPT !.items = Append(@, [ok |-> FALSE, panic |-> FALSE, error |-> e])]

\* yield Err(e); break;
stream_on_error(c, e) == stream_break(yield_item(c, Err(e)))

\* Mutant of yield_bytes: the bytes are yielded also when there are none.
yield_bytes_also_empty(c, bytes) == yield_item(c, Ok(bytes))

\* if !bytes.is_empty() { yield Ok(bytes.to_vec()); }
yield_bytes(c, bytes) == IF bytes # <<>> THEN yield_item(c, Ok(bytes)) ELSE c

\* The stream panics: it is dropped, and with it the sender.
stream_panics(c, e) == [c EXCEPT !.pc = "panicked", !.tx_open = FALSE, !.panic = Some(e)]

\* The prefetch block of the loop: the links not sent before are sent to the
\* task; a send succeeds while the receiver is alive.
prefetch_links(c, links) ==
    IF ~c.prefetch THEN c
    ELSE LET skipped == unwrap_or(c.last_pending, 0)
             pending == SubSeq(links, skipped + 1, Len(links))
             is_ok == c.task = "running"
             count == IF is_ok THEN Len(pending) ELSE 0
         IN [c EXCEPT !.channel = IF is_ok THEN @ \o pending ELSE @,
                      !.prefetch = ~(count > 0 \/ (count = 0 /\ skipped > 0)),
                      !.last_pending = Some(skipped + count)]

\* The target ranges of the cat calls.
CatRanges == TargetRanges

\* The trees cat is called on.
CatTrees ==
    {FoobarTree} \cup SingleBlockTrees \cup DeepTrees \cup MissizedLeafTrees
        \cup MisdeclaredTrees

\* The blocks the store cannot load: none, or one block below the root.
MissingSets(store) == {{}} \cup {{store[i][1]} : i \in 1..(Len(store) - 1)}

CatInit ==
    /\ adder = FileAdder_with_chunker(1)
    /\ blocks_received \in CatTrees
    /\ content = SubtreeBytes(blocks_received, blocks_received[Len(blocks_received)])
    /\ written = 0
    /\ consumed = <<>>
    /\ last_push = NoPush
    /\ finish_blocks = <<>>
    /\ phase = "cat"
    /\ target = None
    /\ visit = None
    /\ yielded = <<>>
    /\ walk_error = None
    /\ visited = <<>>
    /\ prefetched = None
    /\ visitor = <<>>
    /\ call = NoCall
    /\ cat \in {[NoCat EXCEPT !.pc = "idle", !.missing = m] : m \in MissingSets(blocks_received)}

\* cat(ipfs, block, range): the visit is started on the root block; an error
\* is returned, or the prefetch task is spawned and the stream returned.
CatCall ==
    /\ phase = "cat"
    /\ cat.pc = "idle"
    /\ \E r \in CatRanges :
        /\ target' = r
        /\ LET started == IdleFileVisit_start(r, RootBlock[2])
           IN IF started.ok THEN
                  /\ visit' = started.value.visit
                  /\ cat' = [cat EXCEPT !.pc = "first",
                                        !.first = IF started.value.content # <<>>
                                                      THEN Some(started.value.content)
                                                      ELSE None,
                                        !.tx_open = TRUE,
                                        !.task = "running"]
              ELSE IF started.panic THEN
                  /\ visit' = None
                  /\ cat' = [cat EXCEPT !.pc = "panicked", !.panic = Some(started.error)]
              ELSE
                  /\ visit' = None
                  /\ cat' = [cat EXCEPT
                                !.pc = "returned",
                                !.result = Some(Err(TraversalFailed_Walking(RootBlock[1],
                                                                            started.error)))]
    /\ UNCHANGED <<phase, yielded, walk_error, visited, prefetched, visitor, call>>
    /\ UNCHANGED adder_vars

\* The stream is polled for the first time: the bytes of the root are
\* yielded, and the stream returns if the visit is complete.
StreamFirst ==
    /\ cat.pc = "first"
    /\ LET c == IF IsSome(cat.first) THEN yield_item(cat, Ok(Unwrap(cat.first))) ELSE cat
       IN cat' = IF IsNone(visit)
                     THEN [c EXCEPT !.pc = "ended", !.tx_open = FALSE]
                     ELSE [c EXCEPT !.pc = "loop"]
    /\ UNCHANGED <<phase, target, visit, yielded, walk_error, visited, prefetched, visitor,
                 call>>
    /\ UNCHANGED adder_vars

\* One turn of the loop of the stream.
StreamLoop ==
    /\ cat.pc = "loop"
    /\ IF Unwrap(visit).pending = <<>> THEN
           /\ cat' = stream_panics(cat, "pending_links")
           /\ visit' = None
           /\ visited' = visited
       ELSE
           LET p == pending_links_next_and_links(Unwrap(visit))
               c == prefetch_links(cat, p.links)
               block == Ipfs_get_block(cat.missing, p.next)
           IN IF ~block.ok THEN
                  /\ cat' = stream_on_error(c, TraversalFailed_Loading(p.next, block.error))
                  /\ visit' = visit
                  /\ visited' = visited
              ELSE
                  LET r == FileVisit_continue_walk(Unwrap(visit), block.value.data)
                  IN /\ visited' = Append(visited,
                                          Unwrap(visit).pending[Len(Unwrap(visit).pending)])
                     /\ IF r.ok THEN
                            LET yielding == yield_bytes(c, r.value.content)
                            IN /\ visit' = r.value.visit
                               /\ cat' = IF IsSome(r.value.visit) THEN yielding
                                         ELSE stream_break(yielding)
                        ELSE IF r.panic THEN
                            /\ visit' = None
                            /\ cat' = stream_panics(c, r.error)
                        ELSE
                            /\ visit' = None
                            /\ cat' = stream_on_error(
                                          c, TraversalFailed_Walking(block.value.cid, r.error))
    /\ UNCHANGED <<phase, target, yielded, walk_error, prefetched, visitor, call>>
    /\ UNCHANGED adder_vars

\* jh.await.unwrap(): the task has ended; if it panicked, so does the stream.
StreamJoin ==
    /\ cat.pc = "joining"
    /\ cat.task \in {"finished", "panicked"}
    /\ cat' = IF cat.task = "finished" THEN [cat EXCEPT !.pc = "ended"]
              ELSE stream_panics(cat, "JoinError")
    /\ UNCHANGED <<phase, target, visit, yielded, walk_error, visited, prefetched, visitor,
                 call>>
    /\ UNCHANGED adder_vars

\* Mutant of for_each_concurrent_polls_next: no limit on the prefetches going on.
for_each_concurrent_unlimited(c) == c.channel # <<>>

\* rx.for_each_concurrent(2, ..): the receiver is polled for the next cid only
\* while fewer than PrefetchConcurrency prefetches are going on.
for_each_concurrent_polls_next(c) ==
    /\ c.channel # <<>>
    /\ Len(c.in_flight) < PrefetchConcurrency

\* for_each_concurrent: the task takes the next cid from the channel while
\* fewer than PrefetchConcurrency prefetches are going on.
TaskTake ==
    /\ cat.task = "running"
    /\ for_each_concurrent_polls_next(cat)
    /\ cat' = [cat EXCEPT !.channel = Tail(@), !.in_flight = Append(@, Head(cat.channel))]
    /\ UNCHANGED <<phase, target, visit, yielded, walk_error, visited, prefetched, visitor,
                 call>>
    /\ UNCHANGED adder_vars

\* A prefetch has gone through the blocks below its cid.
TaskServed ==
    /\ cat.task = "running"
    /\ \E i \in 1..Len(cat.in_flight) :
        cat' = [cat EXCEPT !.in_flight = SubSeq(@, 1, i - 1) \o SubSeq(@, i + 1, Len(@))]
    /\ UNCHANGED <<phase, target, visit, yielded, walk_error, visited, prefetched, visitor,
                 call>>
    /\ UNCHANGED adder_vars

\* A prefetch has failed: the unwrap of its result panics, and the task with
\* it; the receiver and the other prefetches are dropped.
TaskFailed ==
    /\ cat.task = "running"
    /\ cat.in_flight # <<>>
    /\ cat' = [cat EXCEPT !.task = "panicked", !.in_flight = <<>>, !.channel = <<>>]
    /\ UNCHANGED <<phase, target, visit, yielded, walk_error, visited, prefetched, visitor,
                 call>>
    /\ UNCHANGED adder_vars

\* All senders are dropped and nothing is left to prefetch: the task ends.
TaskFinish ==
    /\ cat.task = "running"
    /\ ~cat.tx_open
    /\ cat.channel = <<>>
    /\ cat.in_flight = <<>>
    /\ cat' = [cat EXCEPT !.task = "finished"]
    /\ UNCHANGED <<phase, target, visit, yielded, walk_error, visited, prefetched, visitor,
                 call>>
    /\ UNCHANGED adder_vars

CatNext ==
    \/ CatCall \/ StreamFirst \/ StreamLoop \/ StreamJoin
    \/ TaskTake \/ TaskServed \/ TaskFailed \/ TaskFinish

CatSpec == CatInit /\ [][CatNext]_vars

\* The runtime keeps polling the task it spawned, and every prefetch the task
\* has started comes to an end, served or failed.
TaskFairness == WF_vars(TaskTake) /\ WF_vars(TaskServed) /\ WF_vars(TaskFinish)

\* The stream is polled again when the task it joins has ended.
StreamFairness == WF_vars(StreamJoin)

FairCatSpec == CatSpec /\ TaskFairness /\ StreamFairness

\* ------------------------------------------------------------ claims
\* C1: round trip. A walk without a target range over the blocks the adder
\* emitted for the stream, started at the last block emitted, completes and
\* the chunks it returned, concatenated, are the stream.
C1_RoundTrip ==
    (target = None /\ WalkEnded) =>
        (phase = "completed" /\ Flatten(yielded) = content)

\* C2: ranged round trip. A walk with target range a..b, a <= b <= |S|,
\* completes without error and its chunks, concatenated, are S[a..b].
C2_RangedRoundTrip ==
    (IsSome(target) /\ WalkEnded /\ Unwrap(target)[2] <= Len(content)) =>
        /\ phase = "completed"
        /\ Flatten(yielded) = SubSeq(content, Unwrap(target)[1] + 1, Unwrap(target)[2])

\* C3: exactly one root. finish yields at least one block, the last block
\* emitted is the only emitted block which no other emitted block links to,
\* and every emitted block is reachable from it through links.
C3_ExactlyOneRoot ==
    phase = "finished" =>
        /\ finish_blocks # <<>>
        /\ UnlinkedCids = {RootBlock[1]}
        /\ ReachableFrom({RootBlock[1]}) = EmittedCids

\* C4: when the whole input went into one leaf and push built no link block,
\* that leaf is the only block emitted: it is the root, with no link block
\* above it.
C4_SingleLeafIsRoot ==
    (phase = "finished" /\ Len(LeafBlocks(blocks_received)) = 1
        /\ LinkBlocks(PushBlocks) = <<>>) =>
        (Len(blocks_received) = 1 /\ IsLeafBlock(RootBlock))

\* C5: determinism. Whatever way the caller divides the stream into push
\* inputs, the blocks emitted are those emitted when every push is given the
\* whole unconsumed tail: same (cid, bytes), same order.
C5_Determinism ==
    phase = "finished" =>
        blocks_received = AddWholeTail(FileAdder_with_chunker(adder.chunker), content, <<>>)

\* C6: Chunker::accept with at most MAX bytes buffered accepts the first
\* min(MAX - len(buffered), len(input)) bytes of the input and reports ready
\* exactly when len(buffered) + len(accepted) = MAX.
C6_ChunkerAccept ==
    (last_push.called /\ Len(last_push.buffered) <= adder.chunker) =>
        /\ last_push.accepted =
               SubSeq(last_push.input, 1,
                      Min(adder.chunker - Len(last_push.buffered), Len(last_push.input)))
        /\ last_push.ready <=>
               (Len(last_push.buffered) + Len(last_push.accepted) = adder.chunker)

\* C7: fixed-size chunks. block_buffer never holds more than chunk-size bytes,
\* every leaf emitted by push carries exactly chunk-size bytes, and a leaf
\* emitted by finish carries at most chunk-size bytes.
C7_FixedSizeChunks ==
    /\ Len(adder.block_buffer) <= adder.chunker
    /\ \A i \in 1..Len(PushBlocks) :
           IsLeafBlock(PushBlocks[i]) => Len(LeafData(PushBlocks[i])) = adder.chunker
    /\ \A i \in 1..Len(finish_blocks) :
           IsLeafBlock(finish_blocks[i]) => Len(LeafData(finish_blocks[i])) <= adder.chunker

\* C8 as stated: every push with a non-empty input returns having consumed
\* at least 1 and at most chunk-size bytes, for every chunker size.
C8_PushProgressAnySize ==
    (last_push.called /\ last_push.input # <<>>) =>
        /\ ~last_push.panicked
        /\ 1 <= last_push.written
        /\ last_push.written <= adder.chunker

\* C8 amended: for every chunker size of at least 1, every push with a
\* non-empty input returns having consumed at least 1 and at most chunk-size
\* bytes, so the caller's count of written bytes grows on every such call
\* and never passes the length of the stream.
C8_PushProgress ==
    (last_push.called /\ last_push.input # <<>> /\ adder.chunker >= 1) =>
        /\ ~last_push.panicked
        /\ 1 <= last_push.written
        /\ last_push.written <= adder.chunker
        /\ last_push.written <= Len(last_push.input)
        /\ written <= Len(content)

\* A push was given more than it took: a short write the caller has to retry.
C8_Witness ==
    /\ last_push.called
    /\ adder.chunker >= 1
    /\ last_push.written >= 1
    /\ last_push.written < Len(last_push.input)

\* C9: no byte is lost, duplicated or reordered. After finish the data of the
\* emitted leaves, concatenated in emission order, is the concatenation of
\* the accepted prefixes of the push inputs.
C9_NoByteLost ==
    AdderFinished => LeafBytes(blocks_received) = consumed

\* finish flushed a tail leaf after push had emitted a leaf, and the stream
\* holds different bytes.
C9_Witness ==
    /\ phase = "finished"
    /\ Len(LeafBlocks(blocks_received)) >= 2
    /\ Len(LeafBlocks(finish_blocks)) = 1
    /\ \E i \in 1..Len(consumed) : consumed[i] # consumed[1]

\* The offset in the stream of the data of the leaf emitted at position i.
LeafOffset(i) == Len(LeafBytes(SubSeq(blocks_received, 1, i - 1)))

\* C10: leaves are emitted in the order of the input bytes they hold, and a
\* link block is emitted after every block it links to.
C10_EmissionOrder ==
    \A i \in 1..Len(blocks_received) :
        LET b == blocks_received[i]
        IN IF IsLeafBlock(b) THEN
               LeafData(b) = SubSeq(consumed, LeafOffset(i) + 1,
                                    LeafOffset(i) + Len(LeafData(b)))
           ELSE
               \A c \in LinkedCids(b) : \E j \in 1..(i - 1) : blocks_received[j][1] = c

\* Link blocks were emitted both by push (at the fan-out, after its leaves)
\* and by finish, with a leaf emitted in between.
C10_Witness ==
    /\ phase = "finished"
    /\ Len(LinkBlocks(PushBlocks)) >= 1
    /\ IsLeafBlock(PushBlocks[Len(PushBlocks)])
    /\ Len(LinkBlocks(finish_blocks)) = 1

\* C11: for any number of leaves, the root block emitted by finish declares
\* a filesize equal to the sum of the data lengths of all leaf blocks emitted
\* since the adder was created, the number of bytes consumed by push.
C11_RootFilesize ==
    (phase = "finished" /\ finish_blocks # <<>>) =>
        /\ RootBlock[2].Data.filesize = Some(Len(LeafBytes(blocks_received)))
        /\ RootBlock[2].Data.filesize = Some(written)

\* The decoded form of the block a from_block call was given.
CallBlock == [links |-> call.data.Links, data |-> call.data.Data]

TypeIsFileOrRaw == CallBlock.data.Type \in {"File", "Raw"}
LinksMatchBlocksizes == Len(CallBlock.links) = Len(CallBlock.data.blocksizes)
DataAbsentOrEmpty == CallBlock.data.Data = <<>> \/ CallBlock.data.Data = <<<<>>>>
FilesizeNonZero == CallBlock.data.filesize # <<>> /\ CallBlock.data.filesize # <<0>>
HasContentOrLinks == ~(DataAbsentOrEmpty /\ FilesizeNonZero /\ CallBlock.links = <<>>)
NoHashTypeNoFanout == CallBlock.data.hashType = <<>> /\ CallBlock.data.fanout = <<>>
LinksHaveFilesize == CallBlock.links # <<>> => CallBlock.data.filesize # <<>>

\* C12: from_block accepts a decoded block exactly when its type is File or
\* Raw, it has as many links as blocksizes, it is not without data while its
\* filesize is non-zero and it has no links, hashType and fanout are absent
\* and, with links, filesize is present; otherwise it returns the error of
\* the first failed check, in this order.
C12_FromBlockChecks ==
    (call.fn = "from_block" /\ call.done) =>
        /\ call.result.ok <=>
               (TypeIsFileOrRaw /\ LinksMatchBlocksizes /\ HasContentOrLinks
                    /\ NoHashTypeNoFanout /\ LinksHaveFilesize)
        /\ ~call.result.ok =>
               /\ ~call.result.panic
               /\ call.result.error =
                      IF ~TypeIsFileOrRaw THEN "UnexpectedType"
                      ELSE IF ~LinksMatchBlocksizes THEN "LinksAndBlocksizesMismatch"
                      ELSE IF ~HasContentOrLinks THEN "NoLinksNoContent"
                      ELSE IF ~NoHashTypeNoFanout THEN "UnexpectedRawOrFileProperties"
                      ELSE "IntermediateNodeWithoutFileSize"

\* A block declaring two links but one blocksize, and a fanout: it fails two
\* checks, and from_block returned the error of the first.
C12_Witness ==
    /\ call.fn = "from_block" /\ call.done
    /\ TypeIsFileOrRaw
    /\ Len(CallBlock.links) = 2 /\ Len(CallBlock.data.blocksizes) = 1
    /\ CallBlock.data.fanout # <<>>
    /\ ~call.result.ok
    /\ call.result.error = "LinksAndBlocksizesMismatch"

\* The decoded form of the block a continue_walk call was given.
NextBlock == [links |-> call.next_block.Links, data |-> call.next_block.Data]

CarriesMetadata(flat) == flat.data.mode # <<>> \/ flat.data.mtime # <<>>

\* The FileMetadata of a block: its mode, and its mtime as (seconds, nanos).
MetadataOf(flat) ==
    [mode |-> flat.data.mode,
     mtime |-> IF flat.data.mtime = <<>> THEN <<>>
               ELSE <<<<flat.data.mtime[1].Seconds,
                        IF flat.data.mtime[1].FractionalNanoseconds = <<>> THEN 0
                        ELSE flat.data.mtime[1].FractionalNanoseconds[1]>>>>]

\* from_block accepts a root block which carries mode or mtime and passes the
\* other checks, and exposes them as the FileMetadata of the reader.
RootMetadataExposed ==
    (call.fn = "from_block" /\ call.done /\ CarriesMetadata(CallBlock)
        /\ TypeIsFileOrRaw /\ LinksMatchBlocksizes /\ HasContentOrLinks
        /\ NoHashTypeNoFanout /\ LinksHaveFilesize) =>
        /\ call.result.ok
        /\ call.result.value.metadata = MetadataOf(CallBlock)

\* C13 as stated: Traversal::continue_walk rejects every non-root block that
\* carries mode or mtime with NonRootDefinesMetadata, and from_block accepts a
\* root block carrying them and exposes them as the walk's FileMetadata.
C13_NonRootMetadataError ==
    /\ (call.fn = "continue_walk" /\ call.done /\ CarriesMetadata(NextBlock)) =>
           (~call.result.ok /\ call.result.error = "NonRootDefinesMetadata")
    /\ RootMetadataExposed

\* C13 amended: Traversal::continue_walk rejects every non-root block that
\* carries mode or mtime: with the error of check_is_suitable_next when the
\* block's range fails that check, which comes first, and otherwise with
\* NonRootDefinesMetadata; a block it accepts gets the root's metadata; and
\* from_block accepts a root block carrying them and exposes them.
C13_MetadataOnlyOnRoot ==
    /\ (call.fn = "continue_walk" /\ call.done /\ CarriesMetadata(NextBlock)) =>
           LET suitable == check_is_suitable_next(call.traversal.last_ending,
                                                  call.traversal.last_offset,
                                                  call.tree_range)
           IN /\ ~call.result.ok
              /\ ~call.result.panic
              /\ call.result.error =
                     IF suitable.ok THEN "NonRootDefinesMetadata" ELSE suitable.error
    /\ (call.fn = "continue_walk" /\ call.done /\ call.result.ok) =>
           /\ ~CarriesMetadata(NextBlock)
           /\ call.result.value.metadata = call.traversal.metadata
    /\ RootMetadataExposed

\* A non-root block with an mtime, at a range which continues the previous
\* chunk, was rejected for its metadata.
C13_Witness ==
    /\ call.fn = "continue_walk" /\ call.done
    /\ NextBlock.data.mtime # <<>>
    /\ call.traversal.last_ending = Chunk(call.tree_range[1])
    /\ ~call.result.ok
    /\ call.result.error = "NonRootDefinesMetadata"

\* The error the rules of C14 give for last ending e, last offset o and next
\* range n, or "accepted".
SuitableNextRule(e, o, n) ==
    LET after_tree == e[1] = "TreeCoverage"
        after_chunk == e[1] = "Chunk"
        end == e[2]
    IN IF after_tree /\ n[1] <= o /\ n[2] > end THEN "TreeExpandsOnLinks"
       ELSE IF after_tree /\ n[1] < end /\ n[2] > end THEN "TreeOverlapsBetweenLinks"
       ELSE IF after_tree /\ n[1] < o THEN "EarlierLink"
       ELSE IF after_chunk /\ n[1] # end THEN "TreeJumpsBetweenLinks"
       ELSE "accepted"

\* C14: check_is_suitable_next(last_offset, next) returns the result of the
\* first matching rule: TreeExpandsOnLinks, TreeOverlapsBetweenLinks,
\* EarlierLink, TreeJumpsBetweenLinks, in this order; every other combination
\* is accepted: a child starting at last_offset and ending within the
\* coverage, a sibling starting at the end of a coverage which is not empty,
\* a block starting exactly at the previous chunk's end.
C14_SuitableNext ==
    (call.fn = "check_is_suitable_next" /\ call.done) =>
        LET rule == SuitableNextRule(call.ending, call.offset, call.next)
        IN /\ call.result.ok <=> rule = "accepted"
           /\ ~call.result.ok => (~call.result.panic /\ call.result.error = rule)
           /\ (call.ending[1] = "TreeCoverage" /\ call.next[1] = call.offset
                   /\ call.next[2] <= call.ending[2]) => call.result.ok
           /\ (call.ending[1] = "TreeCoverage" /\ call.next[1] = call.ending[2]
                   /\ call.offset < call.ending[2]) => call.result.ok
           /\ (call.ending[1] = "Chunk" /\ call.next[1] = call.ending[2]) => call.result.ok

\* A range which both expands and overlaps the coverage, as in
\* tests::expanding_tree: the first of the two rules gave the error.
C14_Witness ==
    /\ call.fn = "check_is_suitable_next" /\ call.done
    /\ call.ending[1] = "TreeCoverage"
    /\ call.offset > 0
    /\ call.next[1] = 0
    /\ call.next[2] > call.ending[2]
    /\ call.ending[2] > call.offset
    /\ ~call.result.ok
    /\ call.result.error = "TreeExpandsOnLinks"

\* The links below a stored block at the given file offset, depth first: each
\* with its cid, the range its parent pairs it with, whether it is a leaf,
\* and the coverage [offset, offset + filesize) of the parent.
RECURSIVE LinksBelow(_, _)
LinksBelow(b, offset) ==
    LET links == b[2].Links
        sizes == b[2].Data.blocksizes
        n == Min(Len(links), Len(sizes))
        start(i) == offset + SumSeq(SubSeq(sizes, 1, i - 1))
        child(i) == BlockOf(Unwrap(links[i].Hash)[2])
    IN Flatten([i \in 1..n |->
           <<[cid |-> child(i)[1],
              range |-> <<start(i), start(i) + sizes[i]>>,
              leaf |-> IsLeafBlock(child(i)),
              parent |-> <<offset, offset + unwrap_or(b[2].Data.filesize, 0)>>]>>
           \o LinksBelow(child(i), start(i))])

\* The k-th entry continue_walk popped was accepted: the walk went on.
Accepted(k) ==
    k < Len(visited) \/ phase \in {"walking", "completed"}

\* C15: child range contained in parent range. Every block accepted by
\* continue_walk has a byte range inside the coverage of its parent interior
\* block, [parent offset, parent offset + parent filesize), so a tree in which
\* a child's range, the first or a later one, ends beyond its parent's
\* coverage is rejected with an error instead of being walked.
C15_ChildInsideParent ==
    (blocks_received # <<>>) =>
        \A k \in 1..Len(visited) :
            Accepted(k) =>
                LET below == LinksBelow(RootBlock, 0)
                IN \A j \in 1..Len(below) :
                       (below[j].cid = visited[k][1] /\ below[j].range = visited[k][2]) =>
                           /\ below[j].parent[1] <= below[j].range[1]
                           /\ below[j].range[2] <= below[j].parent[2]

\* The ranges of the leaves among the entries continue_walk popped, in order.
VisitedLeafRanges ==
    LET leaves == SelectSeq(visited, LAMBDA e : IsLeafBlock(BlockOf(e[1])))
    IN [i \in 1..Len(leaves) |-> leaves[i][2]]

\* C16: contiguous coverage. In a walk without a target range which completes
\* without error, the byte ranges of the visited leaves, each the range its
\* parent pairs with its link, are contiguous in visit order: the first
\* starts at 0 and each next one starts where the one before ended, because
\* any gap, overlap or backward step between them makes the walk fail.
C16_ContiguousLeaves ==
    (target = None /\ phase = "completed") =>
        LET ranges == VisitedLeafRanges
        IN /\ ranges # <<>> => ranges[1][1] = 0
           /\ \A i \in 1..(Len(ranges) - 1) : ranges[i + 1][1] = ranges[i][2]

\* Two byte ranges overlap: some byte offset lies in both.
Overlaps(a, b) == Max(a[1], b[1]) < Min(a[2], b[2])

\* The chunks start and continue_walk returned which are not empty.
NonEmptyYields == SelectSeq(yielded, LAMBDA chunk : chunk # <<>>)

\* C17: range filtering. With a target range only the links whose byte range
\* overlaps the target are put on the pending stack, so only those blocks are
\* requested and visited; for the tree of four leaves of 2, 2, 2 and 1 bytes
\* and target [2,5) exactly the leaves at [2,4) and [4,6) are visited,
\* yielding leaf-local slices of 2 bytes and 1 byte.
C17_RangeFiltering ==
    /\ IsSome(target) =>
           /\ \A k \in 1..Len(visited) : Overlaps(visited[k][2], Unwrap(target))
           /\ IsSome(visit) =>
                  \A k \in 1..Len(Unwrap(visit).pending) :
                      Overlaps(Unwrap(visit).pending[k][2], Unwrap(target))
    /\ (blocks_received = FoobarTree /\ target = Some(<<2, 5>>) /\ WalkEnded) =>
           /\ phase = "completed"
           /\ [k \in 1..Len(visited) |-> visited[k][2]] = <<<<2, 4>>, <<4, 6>>>>
           /\ NonEmptyYields = <<<<111, 98>>, <<97>>>>

\* The trees which are files: a leaf, or a root whose blocksizes and filesize
\* are those of its leaves.
FileTrees == {FoobarTree} \cup SingleBlockTrees \cup BalancedTrees \cup DeepTrees

\* C18: a target range which lies entirely beyond the end of the file yields
\* an empty byte sequence and a completed visit with no error, for a
\* single-block file (the root is a leaf) as well as for a multi-block file.
C18_RangeBeyondEnd ==
    (blocks_received \in FileTrees /\ IsSome(target) /\ WalkEnded
        /\ Unwrap(target)[1] > Len(content)) =>
        /\ phase = "completed"
        /\ walk_error = None
        /\ Flatten(yielded) = <<>>

\* C19: a target range [a,b) which overlaps the file only partially,
\* a < |S| < b, returns exactly the overlapping bytes S[a..|S|] with no
\* error, for a single-block file as well as for a multi-block file.
C19_RangePartlyBeyondEnd ==
    (blocks_received \in FileTrees /\ IsSome(target) /\ WalkEnded
        /\ Unwrap(target)[1] < Len(content) /\ Len(content) < Unwrap(target)[2]) =>
        /\ phase = "completed"
        /\ walk_error = None
        /\ Flatten(yielded) = SubSeq(content, Unwrap(target)[1] + 1, Len(content))

\* C20: reading pending_links(), any number of times and at any point of a
\* walk, leaves the FileVisit unchanged: the pending stack, the target range
\* and the traversal state are those before the call, so the following
\* continue_walk is given the same visit; the links read are the cids of the
\* pending stack from its top, the first being the next block needed.
C20_PendingLinksFrame ==
    IsSome(prefetched) =>
        /\ phase = "walking"
        /\ visit = Some(Unwrap(prefetched).before)
        /\ Unwrap(visit).pending = Unwrap(prefetched).before.pending
        /\ Unwrap(visit).range = Unwrap(prefetched).before.range
        /\ Unwrap(visit).state = Unwrap(prefetched).before.state
        /\ Len(Unwrap(prefetched).links) = Len(Unwrap(visit).pending)
        /\ \A i \in 1..Len(Unwrap(visit).pending) :
               Unwrap(prefetched).links[i] =
                   Unwrap(visit).pending[Len(Unwrap(visit).pending) + 1 - i][1]

\* Mid-walk, with a target range, pending_links was read while two or more
\* different links were pending.
C20_Witness ==
    /\ IsSome(prefetched)
    /\ visited # <<>>
    /\ IsSome(target)
    /\ Len(Unwrap(prefetched).links) >= 2
    /\ Unwrap(prefetched).links[1] # Unwrap(prefetched).links[2]

\* The cids of the links of a stored block, read at the given file offset,
\* whose range matches the target range, in link order.
ChildrenInRange(b, offset, target_range) ==
    LET iter == RangeLinks_from_links_and_blocksizes(b[2].Links, b[2].Data.blocksizes, offset)
        matching == SelectSeq(iter, LAMBDA e : target_range = <<>>
                                               \/ partially_match_range(e[2], target_range[1]))
    IN [i \in 1..Len(matching) |-> Unwrap(matching[i][1].Hash)[2]]

\* A continue_walk consumed a block and handed back a visit: the block is the
\* one of the first pending link, and the pending links afterwards are the
\* consumed block's range-matching children, in link order, followed by the
\* links which were pending behind the first, in the order they had.
PendingOrderKept ==
    (phase = "walking" /\ visited' # visited /\ IsSome(visit')) =>
        LET before == FileVisit_pending_links(Unwrap(visit)).links
            after == FileVisit_pending_links(Unwrap(visit')).links
            entry == visited'[Len(visited')]
            consumed_block == BlockOf(entry[1])
            children == IF IsLeafBlock(consumed_block) THEN <<>>
                        ELSE ChildrenInRange(consumed_block, entry[2][1], target)
        IN /\ entry[1] = Head(before)
           /\ after = children \o Tail(before)

\* C21: pending_links() yields the pending cids in consumption order: its
\* first item is the link whose block the next continue_walk consumes, and
\* after a continue_walk the sequence is the previous one without its head,
\* preceded, when the consumed block was interior, by that block's
\* range-matching children in link order; the links already pending keep
\* their relative order.
C21_PendingOrder == [][PendingOrderKept]_vars

\* An interior block with two links was consumed while another link was
\* pending behind it: three links are pending now.
C21_Witness ==
    /\ phase = "walking"
    /\ visited # <<>>
    /\ Len(BlockOf(visited[Len(visited)][1])[2].Links) = 2
    /\ Len(Unwrap(visit).pending) = 3

\* C22: start and continue_walk return Visitation::Completed exactly when no
\* pending links remain after the block: every FileVisit handed back in
\* Visitation::Continues has at least one pending link, so neither
\* pending_links().next() nor the next continue_walk finds the stack empty,
\* for any blocks supplied and any target range.
C22_ContinuesHasPending ==
    /\ IsSome(visit) => Unwrap(visit).pending # <<>>
    /\ walk_error # Some("pending_links().next().unwrap()")
    /\ walk_error # Some("User called continue_walk there must have been a next link")

\* The file offsets of the k-th chunk returned: it starts where the range of
\* its block does, or where the target range does if that is later, and
\* covers as many offsets as it has bytes. The first chunk is that of start.
ChunkOffsets(k) ==
    LET block_start == IF k = 1 THEN 0 ELSE visited[k - 1][2][1]
        first == IF IsSome(target) THEN Max(block_start, Unwrap(target)[1]) ELSE block_start
    IN <<first, first + Len(yielded[k])>>

\* C23: in any walk, with or without a target range, the content chunks are
\* yielded in strictly increasing file-offset order: each non-empty chunk
\* returned by start or continue_walk covers file offsets greater than those
\* of every chunk returned earlier.
C23_IncreasingOffsets ==
    \A i, j \in 1..Len(yielded) :
        (i < j /\ yielded[i] # <<>> /\ yielded[j] # <<>>) =>
            ChunkOffsets(i)[2] <= ChunkOffsets(j)[1]

\* The positions of the Err items among the items the stream has yielded.
ErrItems == {i \in 1..Len(cat.items) : ~cat.items[i].ok}

\* The stream has left its loop.
StreamStopped == cat.pc \in {"joining", "ended", "panicked"}

\* C24: the walk stops at the first error. When loading a block or
\* continue_walk fails the stream yields that error as a single Err item,
\* which is its last item: nothing is yielded after it and the loop is left;
\* a failing continue_walk has consumed the FileVisit, and a visit which is
\* left over when the stream stops is that of a block which failed to load.
C24_StopsAtFirstError ==
    /\ Cardinality(ErrItems) <= 1
    /\ \A i \in ErrItems :
           /\ i = Len(cat.items)
           /\ StreamStopped
           /\ cat.items[i].error.kind \in {"Loading", "Walking"}
           /\ cat.items[i].error.kind = "Walking" => visit = None
           /\ cat.items[i].error.kind = "Loading" =>
                  (IsSome(visit) /\ cat.items[i].error.cid \in cat.missing)
    /\ (StreamStopped /\ IsSome(visit)) => ErrItems # {}

\* The stream yielded bytes, then the error of a block continue_walk
\* rejected, and ended.
C24_Witness ==
    /\ cat.pc = "ended"
    /\ Len(cat.items) >= 2
    /\ cat.items[1].ok
    /\ ~cat.items[Len(cat.items)].ok
    /\ cat.items[Len(cat.items)].error.kind = "Walking"

\* C25: for any block supplied by the driver, well-formed or not, and any
\* target range, start and continue_walk return Ok or Err(FileReadFailed):
\* they do not abort in another way, by an out-of-bounds slice of the leaf
\* content, an underflow in the range arithmetic or the unwrap of a missing
\* link hash. (The one abort left is the driver's own, when it is handed a
\* visit without pending links.)
C25_OkOrErr ==
    phase = "walk_panicked" => walk_error = Some("pending_links().next().unwrap()")

\* The items the loop of the stream yields from a visit on, and how it stops,
\* when no prefetch is made at all.
RECURSIVE LoopItems(_, _)
LoopItems(v, missing) ==
    IF v.pending = <<>> THEN [items |-> <<>>, end |-> "panicked"]
    ELSE
        LET next == v.pending[Len(v.pending)][1]
            block == Ipfs_get_block(missing, next)
        IN IF ~block.ok THEN
               [items |-> <<Err(TraversalFailed_Loading(next, block.error))>>, end |-> "ended"]
           ELSE
               LET r == FileVisit_continue_walk(v, block.value.data)
               IN IF r.ok THEN
                      LET rest == IF IsSome(r.value.visit)
                                      THEN LoopItems(Unwrap(r.value.visit), missing)
                                      ELSE [items |-> <<>>, end |-> "ended"]
                      IN [items |-> (IF r.value.content # <<>>
                                         THEN <<Ok(r.value.content)>> ELSE <<>>) \o rest.items,
                          end |-> rest.end]
                  ELSE IF r.panic THEN [items |-> <<>>, end |-> "panicked"]
                  ELSE [items |-> <<Err(TraversalFailed_Walking(block.value.cid, r.error))>>,
                        end |-> "ended"]

\* The items of the stream of cat on a root block, and how it stops, when no
\* prefetch is made at all.
StreamItems(root, range, missing) ==
    LET started == IdleFileVisit_start(range, root)
    IN IF ~started.ok THEN
           [items |-> <<>>, end |-> IF started.panic THEN "panicked" ELSE "returned"]
       ELSE
           LET rest == IF IsSome(started.value.visit)
                           THEN LoopItems(Unwrap(started.value.visit), missing)
                           ELSE [items |-> <<>>, end |-> "ended"]
           IN [items |-> (IF started.value.content # <<>>
                              THEN <<Ok(started.value.content)>> ELSE <<>>) \o rest.items,
               end |-> rest.end]

IsPrefix(s, t) == Len(s) <= Len(t) /\ s = SubSeq(t, 1, Len(s))

\* C26: prefetch is advisory. The items the stream of cat yields, their
\* order, and whether the stream ends normally or with an Err item, are the
\* same for every interleaving and every outcome of the prefetch task, also
\* when prefetches fail or are never served: they are those of the walk made
\* without any prefetch.
C26_PrefetchAdvisory ==
    cat.pc \notin {"none", "idle"} =>
        LET alone == StreamItems(RootBlock[2], target, cat.missing)
        IN /\ IsPrefix(cat.items, alone.items)
           /\ cat.pc = "returned" <=> alone.end = "returned"
           /\ cat.pc \in {"joining", "ended"} =>
                  (cat.items = alone.items /\ alone.end = "ended")
           /\ cat.pc = "panicked" => alone.end = "panicked"

\* The block a call was given is an empty file: type File, no data, no
\* links, filesize 0 or none, and nothing else but, maybe, mode and mtime.
IsEmptyFile(b) ==
    /\ b.Data.Type = "File"
    /\ b.Data.Data = <<>>
    /\ b.Links = <<>>
    /\ b.Data.filesize \in {<<>>, <<0>>}
    /\ b.Data.blocksizes = <<>>
    /\ b.Data.hashType = <<>>
    /\ b.Data.fanout = <<>>

\* C27: a block of type File with no data, no links and filesize 0, or no
\* filesize, is accepted by from_block as a leaf with empty content, and
\* reading it as a file yields zero bytes and a completed visit.
C27_EmptyFile ==
    /\ (call.fn = "from_block" /\ call.done /\ IsEmptyFile(call.data)) =>
           /\ call.result.ok
           /\ call.result.value.links = <<>>
           /\ ~call.result.value.had_links
           /\ call.result.value.data = <<>>
           /\ call.result.value.end = <<"Chunk", 0>>
    /\ (call.fn = "start" /\ call.done /\ IsEmptyFile(call.data) /\ call.range = <<>>) =>
           /\ call.result.ok
           /\ call.result.value.content = <<>>
           /\ call.result.value.visit = <<>>

\* The block of tests::empty_file was read as a file.
C27_Witness ==
    /\ call.fn = "start" /\ call.done
    /\ call.data = EmptyFileBlock
    /\ call.range = <<>>
    /\ call.result.ok

PushOutcome ==
    LET blocks == last_push.blocks
        leaf_bytes == last_push.buffered \o last_push.accepted
    IN /\ Len(blocks) <= 2
       /\ blocks = <<>> => last_push.written = Len(last_push.input)
       /\ blocks # <<>> =>
              /\ IsLeafBlock(blocks[1])
              /\ LeafData(blocks[1]) = leaf_bytes
       /\ Len(blocks) = 1 =>
              /\ adder.unflushed_links # <<>>
              /\ Len(adder.unflushed_links) < FanoutLinks
              /\ adder.unflushed_links[Len(adder.unflushed_links)][1] = blocks[1][1]
       /\ Len(blocks) = 2 =>
              /\ ~IsLeafBlock(blocks[2])
              /\ Len(blocks[2][2].Links) = FanoutLinks
              /\ blocks[2][2].Links[FanoutLinks].Hash = Some(Cid_to_bytes(blocks[1][1]))
              /\ adder.unflushed_links = <<>>

\* C29 as stated: each push returns one of the three outcomes, for every
\* chunker size.
C29_PushOutcomesAnySize ==
    last_push.called => (~last_push.panicked /\ PushOutcome)

\* C29 amended: for every chunker size of at least 1, each push returns no
\* block, and then the whole input was consumed; or exactly one block, the
\* leaf just completed; or exactly two blocks, the leaf followed by the link
\* block which collapses the unflushed links, exactly when their number,
\* counting the new leaf, has reached 174. Never more than two blocks, and
\* never a link block without a leaf before it.
C29_PushOutcomes ==
    (last_push.called /\ adder.chunker >= 1) => (~last_push.panicked /\ PushOutcome)

\* A push returned two blocks, and pushes before it returned one.
C29_Witness ==
    /\ last_push.called
    /\ adder.chunker >= 1
    /\ Len(last_push.blocks) = 2
    /\ Len(blocks_received) = FanoutLinks + 1

\* The emitted block b is well formed: a leaf without links and blocksizes,
\* with data and its length as filesize; or a link block without data, with
\* a blocksize for every link, their sum as filesize, and for every link the
\* length of the linked block as Tsize; and no other field.
WellFormed(b) ==
    LET data == b[2].Data
        links == b[2].Links
    IN /\ data.Type = UnixFsTypeFile
       /\ data.mode = None /\ data.mtime = None
       /\ data.hashType = None /\ data.fanout = None
       /\ IF links = <<>> THEN
              /\ data.blocksizes = <<>>
              /\ IsSome(data.Data)
              /\ Unwrap(data.Data) # <<>>
              /\ data.filesize = Some(Len(Unwrap(data.Data)))
          ELSE
              /\ data.Data = None
              /\ Len(data.blocksizes) = Len(links)
              /\ data.filesize = Some(SumSeq(data.blocksizes))
              /\ \A i \in 1..Len(links) :
                     /\ IsSome(links[i].Hash)
                     /\ Unwrap(links[i].Hash)[2] \in EmittedCids
                     /\ links[i].Tsize =
                            Some(BlockLen(BlockOf(Unwrap(links[i].Hash)[2])[2]))

\* C30: every block the adder emits is well formed.
C30_WellFormedBlocks ==
    \A i \in 1..Len(blocks_received) : WellFormed(blocks_received[i])

\* finish emitted a tail leaf and a root with more than one link, to leaves
\* of different lengths.
C30_Witness ==
    /\ phase = "finished"
    /\ Len(finish_blocks) = 2
    /\ Len(RootBlock[2].Links) >= 2
    /\ \E i, j \in 1..Len(RootBlock[2].Links) :
           RootBlock[2].Links[i].Tsize # RootBlock[2].Links[j].Tsize

\* The file offsets which lie both in block and in target, in order.
Intersection(block, target_range) ==
    LET lo == Max(block[1], target_range[1])
        hi == Min(block[2], target_range[2])
    IN IF lo < hi THEN [i \in 1..(hi - lo) |-> lo + i - 1] ELSE <<>>

\* C31: overlapping_slice(content, block, target) returns exactly the bytes
\* of content at the file offsets in the intersection of block and target,
\* and the empty slice when they do not intersect, for every block range,
\* every content of the length of the block and every target range with
\* start <= end.
C31_OverlappingSlice ==
    (call.fn = "overlapping_slice" /\ call.done) =>
        /\ call.result.ok
        /\ call.result.value = Intersection(call.block, call.within)

\* A target inside a block which does not start the file: the bytes returned
\* are neither the first nor the last of the block.
C31_Witness ==
    /\ call.fn = "overlapping_slice" /\ call.done
    /\ call.result.ok
    /\ call.result.value # <<>>
    /\ call.block[1] > 0
    /\ call.block[1] < call.within[1]
    /\ call.within[2] < call.block[2]

\* The walk has been started.
WalkStarted == phase \in {"walking", "completed", "failed", "walk_panicked"}

\* The block the k-th call of the walk which returned Ok was given: the root
\* for start, the block of the popped link for a continue_walk.
ProcessedBlock(k) == IF k = 1 THEN RootBlock[2] ELSE get_block(visited[k - 1][1]).value

\* The visit_content callbacks of a walk in which every leaf block processed
\* is visited once, with the bytes the call returned.
ExpectedContent ==
    LET leaf_calls == SelectSeq([k \in 1..Len(yielded) |-> k],
                                LAMBDA k : ProcessedBlock(k).Links = <<>>)
    IN [j \in 1..Len(leaf_calls) |-> Visitor_visit_content(yielded[leaf_calls[j]])]

\* The callbacks made so far are: visit_metadata once, first, if the root was
\* parsed, and visit_content once for every leaf block processed, with the
\* bytes returned.
CallbacksInOrder ==
    LET parsed == FileReader_from_block(RootBlock[2]).ok
        metas == SelectSeq(visitor, LAMBDA c : c.fn = "visit_metadata")
        contents == SelectSeq(visitor, LAMBDA c : c.fn = "visit_content")
    IN /\ metas = IF parsed
                      THEN <<Visitor_visit_metadata(FileMetadata_from(RootBlock[2].Data))>>
                      ELSE <<>>
       /\ parsed => visitor[1].fn = "visit_metadata"
       /\ contents = ExpectedContent

\* C32: visitor callbacks follow a fixed protocol in every walk. visit_metadata
\* is called exactly once, on the successfully parsed root and before any
\* visit_content; visit_content is called exactly once for each leaf block
\* processed, also with an empty slice, and never for an interior block, with
\* the bytes returned by that call; no callback is made when the call returns
\* an error.
C32_VisitorProtocol ==
    WalkStarted =>
        /\ CallbacksInOrder
        /\ (phase = "failed" /\ yielded = <<>>) => visitor = <<>>

\* The number of blocks below the stored block b, read at the given file
\* offset, which a walk with the target range is to consume: the children
\* whose range matches, and what is below them.
RECURSIVE MatchingBelow(_, _, _)
MatchingBelow(b, offset, target_range) ==
    LET iter == RangeLinks_from_links_and_blocksizes(b[2].Links, b[2].Data.blocksizes, offset)
    IN SumSeq([i \in 1..Len(iter) |->
                  IF target_range = <<>> \/ partially_match_range(iter[i][2], target_range[1])
                      THEN 1 + MatchingBelow(BlockOf(Unwrap(iter[i][1].Hash)[2]),
                                             iter[i][2][1], target_range)
                      ELSE 0])

\* C33: walk termination. For any well-formed file tree and any target range
\* the driver loop reaches Visitation::Completed after exactly as many
\* continue_walk calls as there are non-root blocks whose range matches the
\* target, each consumed exactly once: the walk neither fails nor aborts, it
\* can go on while it is not complete, and it is complete exactly when that
\* many blocks were consumed.
C33_WalkTerminates ==
    (blocks_received \in FileTrees /\ WalkStarted) =>
        LET n == MatchingBelow(RootBlock, 0, target)
        IN /\ phase \in {"walking", "completed"}
           /\ phase = "walking" => Unwrap(visit).pending # <<>>
           /\ Len(visited) <= n
           /\ phase = "completed" <=> Len(visited) = n
           /\ \A i, j \in 1..Len(visited) : i # j => visited[i] # visited[j]

\* C34: Traversal::continue_walk checks in a fixed order: the suitability of
\* the next range against the previous block, before the next block is
\* decoded; then decoding; then the non-root metadata check; then the
\* validation of the block. With several violations the error reported is
\* that of the earliest check.
C34_CheckOrder ==
    (call.fn = "continue_walk" /\ call.done) =>
        LET suitable == check_is_suitable_next(call.traversal.last_ending,
                                               call.traversal.last_offset, call.tree_range)
            decodes == call.next_block.len = FlatUnixFs_get_size(NextBlock)
        IN call.result =
               IF ~suitable.ok THEN suitable
               ELSE IF ~decodes THEN Err("Read")
               ELSE IF CarriesMetadata(NextBlock) THEN Err("NonRootDefinesMetadata")
               ELSE FileReader_from_parts(NextBlock, call.tree_range[1],
                                          call.traversal.metadata)

\* An unsuitable range was reported for a block which cannot be decoded.
C34_Witness ==
    /\ call.fn = "continue_walk" /\ call.done
    /\ call.next_block.len # FlatUnixFs_get_size(NextBlock)
    /\ ~call.result.ok
    /\ call.result.error = "TreeJumpsBetweenLinks"

\* The join on the task has returned: the stream has ended, or the unwrap of
\* the JoinError of a task which panicked has ended it.
JoinReturned ==
    /\ ~cat.tx_open
    /\ \/ cat.pc = "ended" /\ cat.task = "finished"
       \/ cat.pc = "panicked" /\ cat.task = "panicked" /\ cat.panic = Some("JoinError")

StreamLoopStep == cat.pc = "loop" /\ (visited' # visited \/ cat'.pc # "loop")

\* The cids the prefetch block of the loop sends in its next turn.
CidsToSend ==
    IF cat.prefetch /\ Unwrap(visit).pending # <<>>
        THEN LET links == pending_links_next_and_links(Unwrap(visit)).links
             IN SubSeq(links, unwrap_or(cat.last_pending, 0) + 1, Len(links))
        ELSE <<>>

\* C36: at every moment at most PrefetchConcurrency (2) prefetches of the task
\* are in flight, however many cids the stream has sent; and a turn of the
\* loop sends all its cids at once, whatever is in flight or waiting: with a
\* live receiver they all join the channel behind the waiting ones, and the
\* turn goes on to its block without waiting for the task.
C36_AtMostTwoInFlight ==
    /\ [](Len(cat.in_flight) <= PrefetchConcurrency)
    /\ [][(StreamLoopStep /\ Unwrap(visit).pending # <<>>) =>
              /\ cat.task = "running" => cat'.channel = cat.channel \o CidsToSend
              /\ cat.task # "running" => cat'.channel = cat.channel
              /\ cat'.in_flight = cat.in_flight]_vars

\* The stream is in its loop and has sent more cids than the limit: two
\* prefetches are in flight and the other cids wait in the channel.
C36_Witness ==
    /\ cat.pc = "loop"
    /\ cat.task = "running"
    /\ Len(cat.in_flight) = PrefetchConcurrency
    /\ cat.channel # <<>>
    /\ unwrap_or(cat.last_pending, 0) > PrefetchConcurrency

\* The positions of the Ok items among the items the stream has yielded.
OkItems == {i \in 1..Len(cat.items) : cat.items[i].ok}

\* C37: every Ok item the cat stream has yielded is a non-empty chunk of bytes;
\* the empty slices of start and of continue_walk are not yielded, so that a
\* stream whose blocks gave no bytes at all has yielded no Ok item.
C37_NoEmptyItems ==
    /\ \A i \in OkItems : cat.items[i].value # <<>>
    /\ Len(cat.items) <= 1 + Len(visited)
    /\ (Flatten([i \in 1..Len(cat.items) |->
                    IF cat.items[i].ok THEN cat.items[i].value ELSE <<>>]) = <<>>)
           => OkItems = {}

\* The stream has ended after its loop consumed blocks which gave only empty
\* slices, and it has yielded no item.
C37_Witness ==
    /\ cat.pc = "ended"
    /\ visit = None
    /\ Len(visited) >= 2
    /\ cat.items = <<>>

\* C38: after FileReader::content() the last_had_links of the Traversal
\* returned is true exactly when the block just read had links, and false when
\* it was a leaf.
C38_LastHadLinks ==
    (call.fn = "content" /\ call.done) =>
        (call.result.value[2].last_had_links <=> call.data.Links # <<>>)

====
